---- MODULE Spec2Model ----
(***************************************************************************)
(* EcoWatt field gateway: acquisition task, ring buffer, uplink task,      *)
(* delta+RLE codec, HMAC envelope and FOTA engine, as state machines.      *)
(*                                                                         *)
(* JSON texts are modelled as sequences of member tokens (small byte       *)
(* values); a substring search for a key is a search for its token.        *)
(***************************************************************************)
EXTENDS Integers, Sequences, FiniteSets, TLC

VARIABLES
  ring,   \* buffer::Ring object: recs_, r_, w_, count_
  mtx,    \* g_ring_mtx: "free" or the task holding it
  acq,    \* task_acq: position and locals
  up,     \* task_uplink: position and locals
  g,      \* globals of main.cpp (nonces, one-shot sidebands)
  nvs,    \* persistent key-value store (survives a reset)
  S,      \* fota.cpp State S
  flash,  \* OTA partition, OTA writer and boot selection (survive a reset)
  cloud,  \* the cloud server: the nonce of its last reply envelope
  hist,   \* history of pushes, snapshots, payloads and envelopes
  cdc,    \* codec round-trip harness: input batch, blob, decode result
  sec,    \* envelope harness: verifier state and last call
  net,    \* an HTTP call with retries: policy, attempt counter, sleeps made
  mbus    \* Modbus frame harness: request, response frame and parse result

vars == <<ring, mtx, acq, up, g, nvs, S, flash, cloud, hist, cdc, sec, net, mbus>>

(***************************************************************************)
(* Bounds of the model.                                                    *)
(***************************************************************************)
RingCap    == 2   \* capacity of the ring in the model
MaxPush    == 3   \* records the acquisition task produces
MaxNonce   == 2   \* upload cycles (the device nonce stops here)
MaxResets  == 1   \* device resets

(***************************************************************************)
(* Small helpers.                                                          *)
(***************************************************************************)
Min(a, b) == IF a < b THEN a ELSE b

Range(s) == {s[i] : i \in 1..Len(s)}

LastN(s, n) == SubSeq(s, Len(s) - n + 1, Len(s))

RECURSIVE Pow2(_)
Pow2(n) == IF n = 0 THEN 1 ELSE 2 * Pow2(n - 1)

\* a uint32_t as two 16-bit halves
Word(h, l) == [hi |-> h, lo |-> l]

\* a ^ b on four-bit values, bit by bit
RECURSIVE BitXor4(_, _)
BitXor4(a, b) ==
  IF a = 0 THEN b
  ELSE IF b = 0 THEN a
  ELSE ((a + b) % 2) + 2 * BitXor4(a \div 2, b \div 2)

Xor4 == [a \in 0..15 |-> [b \in 0..15 |-> BitXor4(a, b)]]

\* a ^ b on naturals, four bits at a time
RECURSIVE BitXor(_, _)
BitXor(a, b) ==
  IF a = 0 THEN b
  ELSE IF b = 0 THEN a
  ELSE Xor4[a % 16][b % 16] + 16 * BitXor(a \div 16, b \div 16)

(***************************************************************************)
(* Decimal text of a number (snprintf "%llu") and its parse (strtoull on   *)
(* the digits json_get_u64 isolates).                                      *)
(***************************************************************************)
RECURSIVE fmt_u64(_)
fmt_u64(n) == IF n < 10 THEN <<n>> ELSE Append(fmt_u64(n \div 10), n % 10)

RECURSIVE strtoull(_)
strtoull(d) ==
  IF Len(d) = 0 THEN 0
  ELSE 10 * strtoull(SubSeq(d, 1, Len(d) - 1)) + d[Len(d)]

(***************************************************************************)
(* Base64 (mbedtls_base64_encode / _decode).  Characters are their 6-bit   *)
(* values 0..63, B64Pad is '=', anything else is not a Base64 character.   *)
(***************************************************************************)
B64Pad == 64

RECURSIVE b64_encode(_)
b64_encode(bin) ==
  IF Len(bin) = 0 THEN <<>>
  ELSE IF Len(bin) = 1 THEN
    <<bin[1] \div 4, (bin[1] % 4) * 16, B64Pad, B64Pad>>
  ELSE IF Len(bin) = 2 THEN
    <<bin[1] \div 4, (bin[1] % 4) * 16 + bin[2] \div 16, (bin[2] % 16) * 4, B64Pad>>
  ELSE
    <<bin[1] \div 4, (bin[1] % 4) * 16 + bin[2] \div 16,
      (bin[2] % 16) * 4 + bin[3] \div 64, bin[3] % 64>>
    \o b64_encode(SubSeq(bin, 4, Len(bin)))

\* the text is well formed: whole quads, padding only at the very end
b64_valid(s) ==
  /\ Len(s) % 4 = 0
  /\ \A i \in 1..Len(s) : s[i] \in 0..64
  /\ \A i \in 1..Len(s) : s[i] = B64Pad => i >= Len(s) - 1
  /\ (Len(s) > 0 /\ s[Len(s) - 1] = B64Pad) => s[Len(s)] = B64Pad

RECURSIVE b64_quads(_)
b64_quads(s) ==
  IF Len(s) = 0 THEN <<>>
  ELSE
    LET a == s[1]
        b == s[2]
        c == IF s[3] = B64Pad THEN 0 ELSE s[3]
        d == IF s[4] = B64Pad THEN 0 ELSE s[4]
        b1 == a * 4 + b \div 16
        b2 == (b % 16) * 16 + c \div 4
        b3 == (c % 4) * 64 + d
        out == IF s[3] = B64Pad THEN <<b1>>
               ELSE IF s[4] = B64Pad THEN <<b1, b2>>
               ELSE <<b1, b2, b3>>
    IN out \o b64_quads(SubSeq(s, 5, Len(s)))

\* security.cpp / fota.cpp wrapper: the empty string on any decode error
b64_decode(s) == IF b64_valid(s) THEN b64_quads(s) ELSE <<>>

(***************************************************************************)
(* HMAC-SHA256 as an ideal MAC: its value is determined by, and            *)
(* determines, the key and the message.  A MAC text carries the digest     *)
(* and the letter case it is written in.                                   *)
(***************************************************************************)
NoMac == [h |-> <<>>, upper |-> FALSE]

hmac_sha256(key, msg) == [h |-> <<key, msg[1], msg[2]>>, upper |-> FALSE]

\* a comparison that takes any MAC for the right one
eq_ci_hex_any(a, b) == TRUE

\* equal up to letter case
eq_ci_hex(a, b) == a.h = b.h

\* an anti-replay test that lets the last nonce through again
replayed_strict(nonce, last_seen) == nonce < last_seen

\* if (nonce <= last_seen_nonce_io) return std::nullopt
replayed(nonce, last_seen) == nonce <= last_seen

\* json_get_u64: fails when no digits follow the key
json_get_u64(digits) ==
  [found |-> Len(digits) > 0, out |-> strtoull(digits)]

wrap_json_with_hmac(payload_json, psk, next_device_nonce) ==
  LET p_b64 == b64_encode(payload_json)
      buf   == fmt_u64(next_device_nonce)
      mac   == hmac_sha256(psk, <<buf, p_b64>>)
  IN [nonce |-> buf, payload |-> p_b64, mac |-> mac]

Reject(last_seen) == [ok |-> FALSE, body |-> <<>>, last_seen |-> last_seen]

unwrap_and_verify_envelope(env, psk, last_seen, treat_payload_as_base64) ==
  LET n    == json_get_u64(env.nonce)
      msg  == <<fmt_u64(n.out), env.payload>>
      calc == hmac_sha256(psk, msg)
      bin  == b64_decode(env.payload)
  IN IF ~n.found THEN Reject(last_seen)
     ELSE IF Len(env.payload) = 0 \/ env.mac = NoMac THEN Reject(last_seen)
     ELSE IF ~eq_ci_hex(calc, env.mac) THEN Reject(last_seen)
     ELSE IF replayed(n.out, last_seen) THEN Reject(last_seen)
     ELSE IF treat_payload_as_base64
       THEN IF Len(bin) = 0 THEN Reject(n.out)
            ELSE [ok |-> TRUE, body |-> bin, last_seen |-> n.out]
       ELSE [ok |-> TRUE, body |-> env.payload, last_seen |-> n.out]

(***************************************************************************)
(* buffer::Ring.  A record is identified by its production number          *)
(* (its epoch timestamp); 0 is the value-initialised Record.               *)
(***************************************************************************)
RingNew == [recs |-> [i \in 0..(RingCap - 1) |-> 0], r |-> 0, w |-> 0, count |-> 0, dropped |-> 0]

\* recs_[w_] = r
push_store(rg, rec) == [rg EXCEPT !.recs[rg.w] = rec]

\* a push that stores the record without moving the write index
push_advance_stuck(rg) == rg

\* w_ = (w_ + 1) % cap_
push_advance(rg) == [rg EXCEPT !.w = (rg.w + 1) % RingCap]

\* a push that, on a full ring, forgets to move the read index
push_count_norotate(rg) ==
  IF rg.count < RingCap THEN [rg EXCEPT !.count = rg.count + 1] ELSE rg

\* if (count_ < cap_) ++count_; else r_ = (r_ + 1) % cap_
push_count(rg) ==
  IF rg.count < RingCap THEN [rg EXCEPT !.count = rg.count + 1]
  ELSE [rg EXCEPT !.r = (rg.r + 1) % RingCap]

\* bool push: true when the record overwrote the oldest one (the ring was full)
push_overflow(rg) == rg.count = RingCap

\* dropped_ is incremented by one on an overwriting push
push_dropped(rg0, rg) ==
  IF push_overflow(rg0) THEN [rg EXCEPT !.dropped = rg.dropped + 1] ELSE rg

\* Ring::push
push(rg, rec) == push_dropped(rg, push_count(push_advance(push_store(rg, rec))))

\* Ring::get_and_clear_dropped: the number of overwrites, then reset to 0
get_and_clear_dropped(rg) == [out |-> rg.dropped, ring |-> [rg EXCEPT !.dropped = 0]]

\* for i < count_: out.push_back(recs_[(r_ + i) % cap_])
snapshot_copy(rg) == [i \in 1..rg.count |-> rg.recs[(rg.r + i - 1) % RingCap]]

\* r_ = w_ = count_ = 0
snapshot_clear(rg) == [rg EXCEPT !.r = 0, !.w = 0, !.count = 0]

RingLive == Range(snapshot_copy(ring))

(***************************************************************************)
(* FOTA engine (fota.cpp).  SHA-256 is an ideal hash: the context holds    *)
(* the bytes fed so far and two digests are equal exactly when the byte    *)
(* streams are.  A manifest's hash_hex is a text: the digest it spells     *)
(* (h), its letter case, and whether it is 64 hex characters at all.       *)
(***************************************************************************)
ErasedByte == 255  \* what an erased flash byte reads as

HashHex(image, up_case, good) == [h |-> image, upper |-> up_case, wellformed |-> good]
NoHash == [h |-> <<>>, upper |-> FALSE, wellformed |-> FALSE]

NoManifest == [version |-> "", size |-> 0, hash_hex |-> NoHash, chunk_size |-> 1024]

\* State{} : the value-initialised session
StateNew ==
  [session_active |-> FALSE, mf |-> NoManifest, ota |-> 0, part |-> FALSE,
   bytes_written |-> 0, next_chunk |-> 0, finalize_requested |-> FALSE,
   finalized |-> FALSE, sha |-> <<>>, sha_init |-> FALSE, last_error |-> ""]

\* the NVS namespace "fota" with no key written: get_str leaves "", get_u64 leaves 0
NvsFotaNew == [ver |-> "", hash |-> NoHash, size |-> 0, bytes_written |-> 0, next_chunk |-> 0]

NvsNew == [nonce_device |-> 0, nonce_cloud |-> 0, fota |-> NvsFotaNew]

\* the update partition: the bytes written through the open writer, and the
\* image the loader boots
FlashNew == [img |-> <<>>, open |-> FALSE, boot |-> "factory", state |-> "valid"]

\* esp_ota_begin with a known size: erases the partition, opens a writer at offset 0
esp_ota_begin(fl) == [fl EXCEPT !.img = <<>>, !.open = TRUE]

\* esp_ota_write: sequential append
esp_ota_write(fl, data) == [fl EXCEPT !.img = fl.img \o data]

\* esp_ota_end: closes the writer
esp_ota_end(fl) == [fl EXCEPT !.open = FALSE]

\* esp_partition_read of bytes [0, n): written bytes, erased flash beyond them
esp_partition_read(fl, n) ==
  [i \in 1..n |-> IF i <= Len(fl.img) THEN fl.img[i] ELSE ErasedByte]

esp_ota_set_boot_partition(fl) == [fl EXCEPT !.boot = "ota", !.state = "new"]

get_next_chunk_for_cloud(st) == IF st.session_active THEN st.next_chunk ELSE 0

\* the session and what it touches: S, the NVS namespace, the flash, the progress hook
FotaCtx(s, n, f, p) == [S |-> s, nvs |-> n, flash |-> f, progress |-> p, ret |-> FALSE]

\* a duplicate test that never recognises the active manifest
duplicate_manifest_never(st, m) == FALSE

\* the same manifest arrives while a session is already active
duplicate_manifest(st, m) ==
  /\ st.session_active
  /\ st.mf.version = m.version
  /\ st.mf.hash_hex = m.hash_hex
  /\ st.mf.size = m.size

\* fota::start.  plat is what the platform answers: "ok", "no-part",
\* "begin-fail" or "read-fail".
fota_start(c, m, plat) ==
  LET old  == c.nvs
      can_resume == /\ old.ver = m.version
                    /\ old.hash = m.hash_hex
                    /\ old.size = m.size
                    /\ old.bytes_written < old.size
      dup  == duplicate_manifest(c.S, m)
      abort == c.S.session_active /\ ~can_resume
      fl0  == IF abort /\ c.S.ota # 0 THEN esp_ota_end(c.flash) ELSE c.flash
      s0   == IF abort THEN StateNew ELSE c.S
      s1   == [s0 EXCEPT !.session_active = TRUE, !.mf = m, !.last_error = "",
                         !.finalize_requested = FALSE, !.finalized = FALSE]
      wr   == Min(old.bytes_written, m.size)
      chunks_total == (m.size + m.chunk_size - 1) \div m.chunk_size
      next == IF old.next_chunk > chunks_total THEN 0 ELSE old.next_chunk
      fl1  == esp_ota_begin(fl0)
  IN
  IF dup THEN [c EXCEPT !.ret = TRUE]
  ELSE IF plat = "no-part" THEN
    [c EXCEPT !.S = [s1 EXCEPT !.part = FALSE, !.last_error = "no-update-partition"],
              !.flash = fl0, !.ret = FALSE]
  ELSE IF can_resume /\ old.bytes_written > 0 THEN
    IF plat = "begin-fail" THEN
      [c EXCEPT !.S = [s1 EXCEPT !.part = TRUE, !.last_error = "ota-begin-resume"],
                !.flash = fl0, !.ret = FALSE]
    ELSE IF plat = "read-fail" THEN
      [c EXCEPT !.S = [s1 EXCEPT !.part = TRUE, !.ota = 1, !.sha = <<>>,
                                 !.sha_init = TRUE, !.last_error = "resume-read"],
                !.flash = fl1, !.ret = FALSE]
    ELSE
      [c EXCEPT !.S = [s1 EXCEPT !.part = TRUE, !.ota = 1,
                                 !.sha = esp_partition_read(fl1, wr),
                                 !.sha_init = TRUE,
                                 !.bytes_written = wr, !.next_chunk = next],
                !.flash = fl1, !.ret = TRUE]
  ELSE
    IF plat = "begin-fail" THEN
      [c EXCEPT !.S = [s1 EXCEPT !.part = TRUE, !.last_error = "ota-begin"],
                !.flash = fl0, !.ret = FALSE]
    ELSE
      [c EXCEPT !.S = [s1 EXCEPT !.part = TRUE, !.ota = 1, !.sha = <<>>,
                                 !.sha_init = TRUE,
                                 !.bytes_written = 0, !.next_chunk = 0],
                !.nvs = [ver |-> m.version, hash |-> m.hash_hex, size |-> m.size,
                         bytes_written |-> 0, next_chunk |-> 0],
                !.flash = fl1, !.ret = TRUE]

\* an order test that lets every chunk number pass
out_of_order_never(st, number) == FALSE

\* number != S.next_chunk
out_of_order(st, number) == number # st.next_chunk

\* a bounds check that lets every length pass
overflows_never(st, n) == FALSE

\* S.bytes_written + bin.size() > S.mf.size
overflows(st, n) == st.bytes_written + n > st.mf.size

\* fota::ingest_chunk.  plat: "ok" or "write-fail".
fota_ingest_chunk(c, number, b64, plat) ==
  LET bin == b64_decode(b64)
      bw  == c.S.bytes_written + Len(bin)
  IN
  IF ~c.S.session_active \/ ~c.S.sha_init \/ c.S.finalized THEN [c EXCEPT !.ret = FALSE]
  ELSE IF out_of_order(c.S, number) THEN
    [c EXCEPT !.S.last_error = "out-of-order", !.ret = FALSE]
  ELSE IF Len(bin) = 0 THEN
    [c EXCEPT !.S.last_error = "bad-b64", !.ret = FALSE]
  ELSE IF overflows(c.S, Len(bin)) THEN
    [c EXCEPT !.S.last_error = "overflow", !.ret = FALSE]
  ELSE IF plat = "write-fail" THEN
    [c EXCEPT !.S.last_error = "ota-write", !.ret = FALSE]
  ELSE
    [c EXCEPT !.S = [c.S EXCEPT !.sha = c.S.sha \o bin,
                                !.bytes_written = bw,
                                !.next_chunk = number + 1,
                                !.finalize_requested =
                                   (c.S.finalize_requested \/ bw = c.S.mf.size)],
              !.nvs = [c.nvs EXCEPT !.bytes_written = bw, !.next_chunk = number + 1],
              !.flash = esp_ota_write(c.flash, bin),
              !.progress = [has |-> TRUE, written |-> bw, total |-> c.S.mf.size],
              !.ret = TRUE]

\* hex2bin of the manifest hash: 64 hex characters, either letter case
hex2bin(hash_hex) == [ok |-> hash_hex.wellformed, bin |-> hash_hex.h]

\* a comparison that takes any digest for the wanted one
digest_equal_any(sha_out, want) == TRUE

\* memcmp(sha_out, want, 32) == 0
digest_equal(sha_out, want) == sha_out = want

FinResult(c, v, a, r, rb) ==
  [S |-> c.S, nvs |-> c.nvs, flash |-> c.flash, progress |-> c.progress,
   ret |-> r, ok_verify |-> v, ok_apply |-> a, restart |-> rb]

\* fota::finalize_and_apply.  plat: "ok", "end-fail" or "setboot-fail".
fota_finalize_and_apply(c, plat) ==
  LET want      == hex2bin(c.S.mf.hash_hex)
      ok_verify == digest_equal(c.S.sha, want.bin)
      s1        == [c.S EXCEPT !.sha_init = FALSE]
      cleared   == [c.nvs EXCEPT !.bytes_written = 0, !.next_chunk = 0]
      closed    == esp_ota_end(c.flash)
  IN
  IF ~c.S.session_active \/ c.S.finalized THEN FinResult(c, FALSE, FALSE, FALSE, FALSE)
  ELSE IF ~c.S.sha_init THEN FinResult(c, FALSE, FALSE, FALSE, FALSE)
  ELSE IF c.S.bytes_written # c.S.mf.size THEN FinResult(c, FALSE, FALSE, FALSE, FALSE)
  ELSE IF ~want.ok THEN
    FinResult([c EXCEPT !.S = [s1 EXCEPT !.last_error = "bad-hash-format"]],
              FALSE, FALSE, FALSE, FALSE)
  ELSE IF plat = "end-fail" THEN
    FinResult([c EXCEPT !.S = [s1 EXCEPT !.last_error = "ota-end"], !.flash = closed],
              ok_verify, FALSE, FALSE, FALSE)
  ELSE IF ~ok_verify THEN
    FinResult([c EXCEPT !.S = [s1 EXCEPT !.finalized = TRUE], !.nvs = cleared,
                        !.flash = closed],
              FALSE, FALSE, FALSE, FALSE)
  ELSE IF plat = "setboot-fail" THEN
    FinResult([c EXCEPT !.S = [s1 EXCEPT !.last_error = "set-boot"], !.flash = closed],
              TRUE, FALSE, FALSE, FALSE)
  ELSE
    FinResult([c EXCEPT !.S = [s1 EXCEPT !.finalized = TRUE], !.nvs = cleared,
                        !.flash = esp_ota_set_boot_partition(closed)],
              TRUE, TRUE, TRUE, TRUE)

\* fota_pull_error_string: the "error" member of status_json
fota_pull_error_string(st) == st.last_error

(***************************************************************************)
(* JSON documents as token sequences.                                      *)
(***************************************************************************)
TokCodecNone  == 1   \* "codec":"none" (the minimal body)
TokCodecDelta == 2   \* "codec":"delta_rle_v1" (a body built from a batch)
TokReplyOk    == 3   \* a reply member the device does not look at
TokFotaProgress == 4 \* "fota":{"progress":..,"next_chunk":..}
TokFotaReport == 5   \* "fota":{"verify":..,"apply":..}
TokFotaError  == 6   \* "fota":{"error":..,"next_chunk":..}
TokFotaBootOk == 7   \* "fota":{"boot_ok":true}
TokCfgAck     == 8   \* "config_ack":{"accepted":..,"rejected":..,"unchanged":..}
TokManifest0  == 16  \* "fota":{"manifest":{..}} : TokManifest0 + index of the manifest
TokChunk0     == 32  \* "fota":{"chunk_number":n,"data":d} : TokChunk0 + 8 n + index of d
TokRecord0    == 100 \* a record of the batch: TokRecord0 + its number
TokCmdResult  == 9   \* "command_result":{..}
TokDiag0      == 60  \* "diag":{"dropped_samples":d,..} : TokDiag0 + d
TokEvent0     == 80  \* a string of "events":[..] : TokEvent0 + index of its tag

\* the tags of the strings given to log_event
EventTags == <<"acq_read_fail", "buffer_overflow", "sim_fault", "fota_err", "cfg_ok", "cfg_bad">>

EventTok(e) == TokEvent0 + (CHOOSE i \in 1..Len(EventTags) : EventTags[i] = e)

\* the members of "events" in a body, as tags, in order
RECURSIVE BodyEvents(_)
BodyEvents(body) ==
  IF body = <<>> THEN <<>>
  ELSE IF Head(body) \in (TokEvent0 + 1)..(TokEvent0 + Len(EventTags))
       THEN <<EventTags[Head(body) - TokEvent0]>> \o BodyEvents(Tail(body))
       ELSE BodyEvents(Tail(body))

\* log_event(e) called n times: g_events.emplace_back(e)
log_events(events, e, n) == events \o [i \in 1..n |-> e]
TokConfig0    == 200 \* "config_update":{..} : TokConfig0 + index of the update

\* the manifests a cloud reply can carry
ImageA == <<10, 11, 10>>
ImageB == <<11, 10, 11>>
FwSize == Len(ImageA)   \* the size of both images
\* MfA: chunks of one byte announced.  MfB: upper-case hash, and a chunk_size
\* above the image size (the cloud still sends smaller chunks).  MfBad: a
\* shorter image whose hash_hex is not 64 hex characters.
MfA   == [version |-> "1.0", size |-> FwSize, hash_hex |-> HashHex(ImageA, FALSE, TRUE), chunk_size |-> 1]
MfB   == [version |-> "2.0", size |-> FwSize, hash_hex |-> HashHex(ImageB, TRUE, TRUE), chunk_size |-> FwSize + 1]
MfBad == [version |-> "3.0", size |-> FwSize - 1, hash_hex |-> HashHex(ImageA, FALSE, FALSE), chunk_size |-> 1]
Manifests == <<MfA, MfB, MfBad>>

\* the chunk data texts a cloud reply can carry: one byte, one byte, two bytes,
\* and a text that is not Base64
ChunkData == <<b64_encode(<<10>>), b64_encode(<<11>>), b64_encode(<<10, 11>>), <<65, 0, 0, 0>>>>

MaxChunkNo == 1   \* chunk numbers 0..MaxChunkNo appear in replies

\* build_payload / the minimal body: codec member, then one ts_list entry per record
build_body(batch) ==
  IF Len(batch) = 0 THEN <<TokCodecNone>>
  ELSE <<TokCodecDelta>> \o [i \in 1..Len(batch) |-> TokRecord0 + batch[i]]

\* the records a body carries (what the cloud stores from it)
BodyRecords(body) == {body[i] - TokRecord0 : i \in {j \in 1..Len(body) : body[j] > TokRecord0}}

\* inner.find("\"manifest\"") and the parse of its members
ParseManifest(inner) ==
  LET at == {i \in 1..Len(inner) : inner[i] - TokManifest0 \in 1..Len(Manifests)}
  IN IF at = {} THEN [has |-> FALSE, mf |-> NoManifest]
     ELSE [has |-> TRUE, mf |-> Manifests[inner[CHOOSE i \in at : \A j \in at : i <= j] - TokManifest0]]

\* inner.find("\"chunk_number\"") and the parse of number and data
ParseChunk(inner) ==
  LET at == {i \in 1..Len(inner) : inner[i] >= TokChunk0 /\ inner[i] < TokRecord0}
      t  == inner[CHOOSE i \in at : \A j \in at : i <= j] - TokChunk0
  IN IF at = {} THEN [has |-> FALSE, number |-> 0, data |-> <<>>]
     ELSE [has |-> TRUE, number |-> t \div 8, data |-> ChunkData[(t % 8) + 1]]

(***************************************************************************)
(* Runtime configuration (control.hpp, control.cpp, task_uplink).  A       *)
(* register name is a string; a field id is 0..9.                          *)
(***************************************************************************)
\* std::tolower over the names that occur
lower(n) ==
  CASE n = "VAC1"    -> "vac1"
    [] n = "Voltage" -> "voltage"
    [] n = "Bogus"   -> "bogus"
    [] OTHER         -> n

\* the id a lower-case name maps to, -1 for a name that is not known
field_id(n) ==
  CASE n \in {"voltage", "vac1"}          -> 0
    [] n \in {"current", "iac1"}          -> 1
    [] n \in {"frequency", "fac1"}        -> 2
    [] n = "vpv1"                         -> 3
    [] n = "vpv2"                         -> 4
    [] n = "ipv1"                         -> 5
    [] n = "ipv2"                         -> 6
    [] n \in {"temperature", "temp"}      -> 7
    [] n \in {"export_percent", "export"} -> 8
    [] n \in {"pac", "power"}             -> 9
    [] OTHER                              -> 0 - 1

\* std::sort on a sequence of ids (insertion of the head into the sorted tail)
RECURSIVE sort_ids(_)
sort_ids(s) ==
  IF Len(s) = 0 THEN <<>>
  ELSE LET t == sort_ids(Tail(s))
           k == Cardinality({i \in 1..Len(t) : t[i] < s[1]})
       IN SubSeq(t, 1, k) \o <<s[1]>> \o SubSeq(t, k + 1, Len(t))

\* std::unique: of each run of equal neighbours the first stays
RECURSIVE unique_ids(_)
unique_ids(s) ==
  IF Len(s) <= 1 THEN s
  ELSE IF s[1] = s[2] THEN unique_ids(Tail(s))
  ELSE <<s[1]>> \o unique_ids(Tail(s))

\* a mapping that skips the names it does not know
map_field_names_lenient(names) ==
  LET ids   == [i \in 1..Len(names) |-> field_id(lower(names[i]))]
      known == SelectSeq(ids, LAMBDA x : x >= 0)
  IN [ok |-> Len(known) > 0, out |-> unique_ids(sort_ids(known))]

\* control::map_field_names: false at the first unknown name or for no name
map_field_names(names) ==
  LET ids == [i \in 1..Len(names) |-> field_id(lower(names[i]))]
  IN IF \E i \in 1..Len(ids) : ids[i] < 0 THEN [ok |-> FALSE, out |-> <<>>]
     ELSE IF Len(ids) = 0 THEN [ok |-> FALSE, out |-> <<>>]
     ELSE [ok |-> TRUE, out |-> unique_ids(sort_ids(ids))]

\* si_sec * 1000U in uint32_t arithmetic (si_sec below 2^31)
mul1000_u32(si_sec) ==
  LET p == (si_sec % 65536) * 1000
  IN Word(((si_sec \div 65536) * 1000 + p \div 65536) % 65536, p % 65536)

SamplePeriodMs == 5000   \* the sampling period the device boots with

AllFields == <<0, 1, 2, 3, 4, 5, 6, 7, 8, 9>>

\* RuntimeConfig after app_main
CfgBoot == [sampling_interval_ms |-> Word(0, SamplePeriodMs), fields |-> AllFields]

NoAck == [ready |-> FALSE, accepted |-> {}, rejected |-> {}, unchanged |-> {}]

\* the config_update handler: the classification of both keys, the next
\* configuration it stages and the ack.  si_sec is 0 for an omitted (or zero)
\* sampling_interval, regs_in is empty for an omitted registers list.
config_update(cur, si_sec, regs_in) ==
  LET m          == map_field_names(regs_in)
      regs_valid == IF Len(regs_in) = 0 THEN TRUE ELSE m.ok
      want_ms    == mul1000_u32(si_sec)
      si_class   == IF si_sec = 0 THEN "unchanged"
                    ELSE IF want_ms = cur.sampling_interval_ms THEN "unchanged"
                    ELSE "accepted"
      regs_class == IF Len(regs_in) = 0 THEN "unchanged"
                    ELSE IF ~regs_valid THEN "rejected"
                    ELSE IF sort_ids(cur.fields) = sort_ids(m.out) THEN "unchanged"
                    ELSE "accepted"
      next1      == IF si_class = "accepted"
                    THEN [cur EXCEPT !.sampling_interval_ms = want_ms] ELSE cur
      next2      == IF regs_class = "accepted" THEN [next1 EXCEPT !.fields = m.out] ELSE next1
      keys(c)    == (IF si_class = c THEN {"sampling_interval"} ELSE {})
                      \cup (IF regs_class = c THEN {"registers"} ELSE {})
  IN [next |-> next2,
      ack  |-> [ready |-> TRUE, accepted |-> keys("accepted"),
                rejected |-> keys("rejected"), unchanged |-> keys("unchanged")]]

\* the sampling_interval values (seconds) a config_update can carry: omitted,
\* the booted period, another one, and one whose product with 1000 passes 2^32
SiWrap == 536870917   \* 5 + 2^29 : 1000 * SiWrap = 5000 + 125 * 2^32
SiValues == <<0, SamplePeriodMs \div 1000, 10, SiWrap>>

\* the registers lists a config_update can carry: omitted, an unknown name
\* last, an unknown name first, every field once more in another order with
\* synonyms, capitals and a duplicate, and a shorter list out of order with
\* a duplicate
RegsValues ==
  << <<>>,
     <<"vac1", "Bogus">>,
     <<"bogus", "pac">>,
     <<"power", "Voltage", "iac1", "frequency", "vpv1", "vpv2", "ipv1", "ipv2",
       "temp", "export", "vac1">>,
     <<"pac", "VAC1", "vac1">>,
     <<"voltage", "power">> >>

SiZero == 536870912   \* 2^29 : 1000 * SiZero = 125 * 2^32

\* the config_update documents: every pair of the two, and one that gives
\* the interval SiZero alone
ConfigUpdates ==
  [k \in 1..(Len(SiValues) * Len(RegsValues)) |->
     [si_sec  |-> SiValues[((k - 1) % Len(SiValues)) + 1],
      regs_in |-> RegsValues[((k - 1) \div Len(SiValues)) + 1]]]
    \o <<[si_sec |-> SiZero, regs_in |-> <<>>]>>

\* inner.find("\"config_update\"") and the parse of its two members
ParseConfig(inner) ==
  LET at == {i \in 1..Len(inner) : inner[i] - TokConfig0 \in 1..Len(ConfigUpdates)}
  IN IF at = {} THEN [has |-> FALSE, si_sec |-> 0, regs_in |-> <<>>]
     ELSE LET u == ConfigUpdates[inner[CHOOSE i \in at : \A j \in at : i <= j] - TokConfig0]
          IN [has |-> TRUE, si_sec |-> u.si_sec, regs_in |-> u.regs_in]

\* "command": the values of "value" a reply can carry; -1 stands for a
\* missing or negative value, which strtol and the val >= 0 test leave unstaged
TokCommand0 == 240   \* "command":{..} : TokCommand0 + index of the value
CmdValues == <<-1, 0, 50, 100, 150>>

\* inner.find("\"command\"") and the parse of "value"
ParseCommand(inner) ==
  LET at == {i \in 1..Len(inner) : inner[i] - TokCommand0 \in 1..Len(CmdValues)}
  IN IF at = {} THEN [has |-> FALSE, val |-> -1]
     ELSE [has |-> TRUE, val |-> CmdValues[inner[CHOOSE i \in at : \A j \in at : i <= j] - TokCommand0]]

\* control::PendingCommand and control::CommandResult as constructed
NoCmd == [has_cmd |-> FALSE, export_pct |-> -1]
NoCmdRes == [has_result |-> FALSE, success |-> FALSE, value |-> -1]

\* control::to_json_status, braces stripped: empty without a result
to_json_status(r) == IF r.has_result THEN <<TokCmdResult>> ELSE <<>>

(***************************************************************************)
(* Modbus RTU frames and their ASCII-hex form (modbus.cpp), and the write   *)
(* of the export power (acquisition.cpp).  A frame is a sequence of bytes;  *)
(* a hex string is a sequence of characters: 0..15 stand for '0'..'9' and   *)
(* 'A'..'F', 26..31 for 'a'..'f'.                                           *)
(***************************************************************************)
HexSpace == 32   \* a blank
HexOther == 33   \* any character that is no hex digit and no blank

\* hexval: the value of a hex digit in either case, -1 otherwise
hexval(c) == IF c \in 0..15 THEN c ELSE IF c \in 26..31 THEN c - 16 ELSE -1

\* the inner loop of crc16: eight shifts, with 0xA001 when the low bit is set
RECURSIVE crc16_bits(_, _)
crc16_bits(crc, j) ==
  IF j = 0 THEN crc
  ELSE crc16_bits(IF crc % 2 = 1 THEN BitXor(crc \div 2, 40961) ELSE crc \div 2, j - 1)

\* the loop over the bytes from data[i] on; crc is evaluated on entry (the
\* test crc < 0, never true), which keeps the evaluation shallow
RECURSIVE crc16_from(_, _, _)
crc16_from(crc, data, i) ==
  IF i > Len(data) \/ crc < 0 THEN crc
  ELSE crc16_from(crc16_bits(BitXor(crc, data[i]), 8), data, i + 1)

\* crc16(data, len), initial value 0xFFFF
crc16(data) == crc16_from(65535, data, 1)

\* hex_to_bytes: blanks and non-hex characters are skipped, a trailing half
\* byte is dropped
RECURSIVE hex_scan(_, _, _, _)
hex_scan(hex, i, hi, out) ==
  IF i > Len(hex) THEN out
  ELSE LET v == hexval(hex[i])
       IN IF v < 0 THEN hex_scan(hex, i + 1, hi, out)
          ELSE IF hi < 0 THEN hex_scan(hex, i + 1, v, out)
          ELSE hex_scan(hex, i + 1, -1, Append(out, 16 * hi + v))

hex_to_bytes(hex) == hex_scan(hex, 1, -1, <<>>)

\* bytes_to_hex: two upper-case digits per byte
bytes_to_hex(data) ==
  [k \in 1..(2 * Len(data)) |->
     IF k % 2 = 1 THEN data[(k + 1) \div 2] \div 16 ELSE data[k \div 2] % 16]

\* the frame with its CRC appended, low byte first
with_crc(buf) == LET c == crc16(buf) IN buf \o <<c % 256, c \div 256>>

make_read_holding(slave, start_addr, count) ==
  bytes_to_hex(with_crc(<<slave, 3, start_addr \div 256, start_addr % 256,
                          count \div 256, count % 256>>))

make_write_single(slave, reg_addr, value) ==
  bytes_to_hex(with_crc(<<slave, 6, reg_addr \div 256, reg_addr % 256,
                          value \div 256, value % 256>>))

\* a CRC test that compares the low byte only
crc_matches_low(bytes) ==
  bytes[Len(bytes) - 1] = crc16(SubSeq(bytes, 1, Len(bytes) - 2)) % 256

\* crc_given == crc_calc over a decoded frame of at least five bytes
crc_matches(bytes) ==
  LET n == Len(bytes)
  IN bytes[n - 1] + 256 * bytes[n] = crc16(SubSeq(bytes, 1, n - 2))

\* parse_read_response: the returned flag and the three outputs; an output
\* the function did not write is -1 (slave, func) or empty (regs)
parse_read_response(resp_hex) ==
  LET bytes == hex_to_bytes(resp_hex)
      n     == Len(bytes)
      no(sl, fn) == [ok |-> FALSE, slave |-> sl, func |-> fn, regs |-> <<>>]
  IN IF n < 5 THEN no(-1, -1)
     ELSE IF ~crc_matches(bytes) THEN no(-1, -1)
     ELSE IF bytes[2] >= 128 THEN no(bytes[1], bytes[2])
     ELSE IF bytes[2] # 3 THEN no(bytes[1], bytes[2])
     ELSE IF 3 + bytes[3] + 2 # n THEN no(bytes[1], bytes[2])
     ELSE IF bytes[3] % 2 = 1 THEN no(bytes[1], bytes[2])
     ELSE [ok |-> TRUE, slave |-> bytes[1], func |-> bytes[2],
           regs |-> [i \in 1..(bytes[3] \div 2) |-> 256 * bytes[2 + 2 * i] + bytes[3 + 2 * i]]]

\* parse_exception_response: the returned flag and the exception code
parse_exception_response(resp_hex) ==
  LET bytes == hex_to_bytes(resp_hex)
  IN IF Len(bytes) < 5 THEN [ok |-> FALSE, exc |-> 0]
     ELSE IF ~crc_matches(bytes) THEN [ok |-> FALSE, exc |-> 0]
     ELSE IF bytes[2] < 128 THEN [ok |-> FALSE, exc |-> 0]
     ELSE [ok |-> TRUE, exc |-> bytes[3]]

SLAVE == 17   \* 0x11

\* std::max(0, std::min(100, percent))
clamp_pct(percent) == IF percent < 0 THEN 0 ELSE IF percent > 100 THEN 100 ELSE percent

\* a comparison of the decoded frames instead of the hex texts
resp_equal_bytes(resp, req) == hex_to_bytes(resp) = hex_to_bytes(req)

\* resp != req on the hex texts, negated
resp_equal(resp, req) == resp = req

\* Acquisition::set_export_power, given what post_frame returns for the
\* request: the request frame, the result and the fault that is notified
set_export_power(percent, resp) ==
  LET pct == clamp_pct(percent)
      req == make_write_single(SLAVE, 8, pct)
  IN IF resp = <<>> THEN [req |-> req, pct |-> pct, ret |-> FALSE, fault |-> "timeout"]
     ELSE IF ~resp_equal(resp, req)
     THEN [req |-> req, pct |-> pct, ret |-> FALSE,
           fault |-> IF parse_exception_response(resp).ok THEN "exception"
                     ELSE "malformed_response"]
     ELSE [req |-> req, pct |-> pct, ret |-> TRUE, fault |-> "none"]

(***************************************************************************)
(* The device: app_main, task_acq, task_uplink (main.cpp).                 *)
(***************************************************************************)
PSK == "ecowatt-demo-psk"

NoEnv == [nonce |-> <<>>, payload |-> <<>>, mac |-> NoMac]

NoProgress == [has |-> FALSE, written |-> 0, total |-> 0]

NoReport == [has |-> FALSE, verify_ok |-> FALSE, apply_ok |-> FALSE]

\* task_acq before its loop: period_ms is read from the booted configuration
AcqInit ==
  [pc |-> "tick", rec |-> 0, fids |-> <<>>, period_ms |-> CfgBoot.sampling_interval_ms,
   groups |-> 0, good |-> {}, ok |-> FALSE, logged |-> FALSE, pushed |-> FALSE, overflow |-> FALSE]

UpInit == [pc |-> "promote", batch |-> <<>>, body |-> <<>>, to_send |-> NoEnv,
           ok |-> FALSE, reply |-> NoEnv, inner |-> <<>>]

\* app_main: the nonces are loaded from the store, the boot acknowledgement
\* is raised when the running image was pending verification, everything
\* else starts afresh
GBoot(store, pending) ==
  [device_nonce |-> store.nonce_device, last_cloud_nonce |-> store.nonce_cloud,
   fota_progress |-> NoProgress, fota_report |-> NoReport,
   fota_bootack |-> pending,
   cfg_cur |-> CfgBoot, cfg_next |-> CfgBoot, has_pending_cfg |-> FALSE,
   cfg_ack |-> NoAck, cmd |-> NoCmd, cmd_res |-> NoCmdRes,
   dropped_samples |-> 0, acq_failures |-> 0, events |-> <<>>]

\* what the loader and esp_ota_get_state_partition make of the image at boot:
\* a newly selected image runs as pending-verify when the loader was built
\* with rollback, and has no state to report otherwise
boot_state(fl, rollback) ==
  IF fl.state = "new" THEN (IF rollback THEN "pending" ELSE "undefined") ELSE fl.state

\* esp_ota_mark_app_valid_cancel_rollback
esp_ota_mark_app_valid_cancel_rollback(fl) == [fl EXCEPT !.state = "valid"]

\* the flash after app_main
boot_flash(fl, rollback) ==
  IF boot_state(fl, rollback) = "pending" THEN esp_ota_mark_app_valid_cancel_rollback(fl)
  ELSE [fl EXCEPT !.state = boot_state(fl, rollback)]

\* the FOTA call of the current cycle's last dispatch step, with what held before it
NoFotaCall == [op |-> "none", active |-> FALSE, match |-> FALSE, written |-> 0, ret |-> FALSE]

\* what the last finalize_and_apply of this boot gave back
NoFin == [ret |-> FALSE, ok_verify |-> FALSE, ok_apply |-> FALSE]

\* the config_update of the current cycle's reply, with the configuration
\* that was current before it
NoCfgCall == [has |-> FALSE, si_sec |-> 0, regs_in |-> <<>>, cur |-> CfgBoot]

\* the last snapshot: what it returned, and the pushes since the one before
NoSnap == [out |-> <<>>, window |-> <<>>]

\* the set_export_power call at the end of the last cycle of this boot
NoExec == [has |-> FALSE, percent |-> -1, req |-> <<>>, resp |-> <<>>, ret |-> FALSE]

\* the last tick the acquisition task completed: the fields it read and the
\* period it then slept for
NoTick ==
  [done |-> FALSE, fids |-> <<>>, period_ms |-> Word(0, 0), groups |-> 0, good |-> {},
   pushed |-> FALSE, failures |-> 0, logged |-> FALSE, streak |-> 0]

\* the last call made on the ring alone: the ring before it and what it returned
NoRop == [op |-> "none", before |-> RingNew, rec |-> 0, ovf |-> FALSE, n |-> 0, out |-> <<>>]

HistInit ==
  [made |-> 0, pushed |-> {}, window |-> <<>>, nsnaps |-> 0, snap |-> NoSnap,
   snapped |-> {}, twice |-> {}, overwritten |-> {},
   delivered |-> {}, failed |-> {}, lostAtReset |-> {}, sent |-> <<>>, sentAtReset |-> 0,
   resets |-> 0,
   fota |-> NoFotaCall,
   bootPending |-> FALSE, built |-> 0, cfg |-> NoCfgCall, fin |-> NoFin,
   tick |-> NoTick, cfgs |-> {CfgBoot}, exec |-> NoExec, cnonces |-> <<>>,
   rop |-> NoRop, over |-> 0, reported |-> 0, lens |-> <<>>]

\* a take that never waits
xSemaphoreTake_nowait(m) == TRUE

\* xSemaphoreTake(g_ring_mtx, portMAX_DELAY) returns once the mutex is free
xSemaphoreTake(m) == m = "free"

\* a store that drops the write
set_nonce_device_dropped(store, v) == store

\* nvstore::set_u64("sec", "nonce_device", v)
set_nonce_device(store, v) == [store EXCEPT !.nonce_device = v]

\* ---- task_acq ----
\* the start of a tick: the field list is copied from g_cfg_cur.fields, the
\* inverter is read and the record is stamped
AcqTick ==
  /\ acq.pc = "tick"
  /\ hist.made < MaxPush
  /\ acq' = [acq EXCEPT !.pc = "read", !.rec = hist.made + 1, !.fids = g.cfg_cur.fields,
                          !.pushed = FALSE, !.overflow = FALSE]
  /\ hist' = [hist EXCEPT !.made = hist.made + 1]
  /\ UNCHANGED <<ring, mtx, up, g, nvs, S, flash, cloud, cdc, sec, net, mbus>>

\* read_selected: the number of grouped reads for a list of field ids (a
\* group is a run of ids each one more than the one before)
read_groups(fids) ==
  Cardinality({i \in 1..Len(fids) : i = 1 \/ fids[i] # fids[i - 1] + 1})

\* the grouped reads of a tick: read_selected for a list that is not empty,
\* read_all (one read of ten registers, then six smaller ones) otherwise
tick_groups(fids) == IF Len(fids) > 0 THEN read_groups(fids) ELSE 7

\* ok_any of read_selected / read_all, given the groups whose read succeeded
\* (read_all does not issue the six smaller reads when the first succeeds)
read_ok(fids, good) == good # {}

\* the reads of the tick and the failure accounting: with faulty the
\* inverter may fail any of the grouped reads (each failure is notified as
\* a sim_fault), otherwise every read succeeds
AcqRead(faulty) ==
  /\ acq.pc = "read"
  /\ LET n == tick_groups(acq.fids)
     IN \E good \in (IF faulty THEN SUBSET (1..n) ELSE {1..n}) :
          LET ok    == read_ok(acq.fids, good)
              nfail == IF Len(acq.fids) = 0 /\ 1 \in good THEN 0 ELSE n - Cardinality(good)
              fails == IF ok THEN g.acq_failures ELSE g.acq_failures + 1
              ev1   == log_events(g.events, "sim_fault", nfail)
              ev2   == IF ~ok /\ fails % 3 = 0 THEN log_events(ev1, "acq_read_fail", 1) ELSE ev1
          IN /\ acq' = [acq EXCEPT !.pc = "take", !.groups = n, !.good = good, !.ok = ok,
                                     !.logged = (ev2 # ev1)]
             /\ g' = [g EXCEPT !.acq_failures = fails, !.events = ev2]
  /\ UNCHANGED <<ring, mtx, up, nvs, S, flash, cloud, hist, cdc, sec, net, mbus>>

AcqTake ==
  /\ acq.pc = "take"
  /\ xSemaphoreTake(mtx)
  /\ mtx' = "acq"
  /\ acq' = [acq EXCEPT !.pc = "push"]
  /\ UNCHANGED <<ring, up, g, nvs, S, flash, cloud, hist, cdc, sec, net, mbus>>

\* g_ring->push(rec); a record overwritten here is noted
AcqPush ==
  /\ acq.pc = "push"
  /\ ring' = push(ring, acq.rec)
  /\ hist' = [hist EXCEPT !.pushed = hist.pushed \cup {acq.rec},
                          !.window = Append(hist.window, acq.rec),
                          !.overwritten =
                             IF ring.count = RingCap /\ ring.recs[ring.w] # 0
                             THEN hist.overwritten \cup {ring.recs[ring.w]}
                             ELSE hist.overwritten]
  /\ acq' = [acq EXCEPT !.pc = "give", !.pushed = TRUE, !.overflow = push_overflow(ring)]
  /\ UNCHANGED <<mtx, up, g, nvs, S, flash, cloud, cdc, sec, net, mbus>>

AcqGive ==
  /\ acq.pc = "give"
  /\ mtx' = "free"
  /\ acq' = [acq EXCEPT !.pc = "count"]
  /\ UNCHANGED <<ring, up, g, nvs, S, flash, cloud, hist, cdc, sec, net, mbus>>

\* if (overflow) { ++g_dropped_samples; log_event("buffer_overflow"); }
AcqCount ==
  /\ acq.pc = "count"
  /\ acq' = [acq EXCEPT !.pc = "delay"]
  /\ g' = IF acq.overflow
          THEN [g EXCEPT !.dropped_samples = g.dropped_samples + 1,
                         !.events = log_events(g.events, "buffer_overflow", 1)]
          ELSE g
  /\ UNCHANGED <<ring, mtx, up, nvs, S, flash, cloud, hist, cdc, sec, net, mbus>>

\* vTaskDelayUntil(&last, period_ticks): the tick ends after the period the
\* task holds
AcqDelay ==
  /\ acq.pc = "delay"
  /\ acq' = [acq EXCEPT !.pc = "period"]
  /\ hist' = [hist EXCEPT !.tick = [done |-> TRUE, fids |-> acq.fids, period_ms |-> acq.period_ms,
                                    groups |-> acq.groups, good |-> acq.good,
                                    pushed |-> acq.pushed, failures |-> g.acq_failures,
                                    logged |-> acq.logged,
                                    streak |-> IF acq.ok THEN 0 ELSE hist.tick.streak + 1]]
  /\ UNCHANGED <<ring, mtx, up, g, nvs, S, flash, cloud, cdc, sec, net, mbus>>

\* if (period_ms != g_cfg_cur.sampling_interval_ms) period_ms = ...
AcqPeriod ==
  /\ acq.pc = "period"
  /\ acq' = [acq EXCEPT !.pc = "tick", !.period_ms = g.cfg_cur.sampling_interval_ms]
  /\ UNCHANGED <<ring, mtx, up, g, nvs, S, flash, cloud, hist, cdc, sec, net, mbus>>

\* a staging that writes the current configuration at once
stage_config_applied(gl, r) ==
  [gl EXCEPT !.cfg_cur = r.next, !.cfg_next = r.next, !.has_pending_cfg = TRUE,
             !.cfg_ack = r.ack]

\* g_cfg_next = next; g_has_pending_cfg = true; the ack is staged
stage_config(gl, r) ==
  [gl EXCEPT !.cfg_next = r.next, !.has_pending_cfg = TRUE, !.cfg_ack = r.ack]

\* g_cfg_cur = g_cfg_next; g_has_pending_cfg = false
promote_config(gl) == [gl EXCEPT !.cfg_cur = gl.cfg_next, !.has_pending_cfg = FALSE]

\* a build that leaves the boot acknowledgement raised
consume_bootack_kept(has) == has

\* g_fota_bootack.has = false, once the member is in the body
consume_bootack(has) == FALSE

\* a build that leaves the staged ack in place
consume_cfg_ack_kept(ack) == ack

\* g_cfg_ack_ready = false; g_cfg_ack_json.clear(), once the member is in the body
consume_cfg_ack(ack) == NoAck

\* ---- task_uplink ----
\* the top of the cycle: a staged configuration becomes the current one
UpPromote ==
  /\ up.pc = "promote"
  /\ g' = IF g.has_pending_cfg THEN promote_config(g) ELSE g
  /\ hist' = [hist EXCEPT !.cfgs = hist.cfgs \cup {g'.cfg_cur}]
  /\ up' = [up EXCEPT !.pc = "take"]
  /\ UNCHANGED <<ring, mtx, acq, nvs, S, flash, cloud, cdc, sec, net, mbus>>

UpTake ==
  /\ up.pc = "take"
  /\ xSemaphoreTake(mtx)
  /\ mtx' = "uplink"
  /\ up' = [up EXCEPT !.pc = "copy"]
  /\ UNCHANGED <<ring, acq, g, nvs, S, flash, cloud, hist, cdc, sec, net, mbus>>

UpCopy ==
  /\ up.pc = "copy"
  /\ up' = [up EXCEPT !.pc = "clear", !.batch = snapshot_copy(ring)]
  /\ UNCHANGED <<ring, mtx, acq, g, nvs, S, flash, cloud, hist, cdc, sec, net, mbus>>

UpClear ==
  /\ up.pc = "clear"
  /\ ring' = snapshot_clear(ring)
  /\ hist' = [hist EXCEPT !.nsnaps = Min(hist.nsnaps + 1, 2),
                          !.snap = [out |-> up.batch, window |-> hist.window],
                          !.snapped = hist.snapped \cup Range(up.batch),
                          !.twice = hist.twice \cup (hist.snapped \cap Range(up.batch)),
                          !.window = <<>>]
  /\ up' = [up EXCEPT !.pc = "give"]
  /\ UNCHANGED <<mtx, acq, g, nvs, S, flash, cloud, cdc, sec, net, mbus>>

UpGive ==
  /\ up.pc = "give"
  /\ mtx' = "free"
  /\ up' = [up EXCEPT !.pc = "build"]
  /\ UNCHANGED <<ring, acq, g, nvs, S, flash, cloud, hist, cdc, sec, net, mbus>>

\* the body and its FOTA sidebands, each merged before the closing brace
UpBuild ==
  /\ up.pc = "build"
  /\ LET b0 == IF Len(up.batch) = 0 THEN build_body(up.batch)
               ELSE build_body(up.batch) \o to_json_status(g.cmd_res)
         b1 == IF g.fota_progress.has THEN Append(b0, TokFotaProgress) ELSE b0
         b2 == IF g.fota_report.has THEN Append(b1, TokFotaReport) ELSE b1
         b3 == IF g.fota_bootack THEN Append(b2, TokFotaBootOk) ELSE b2
         b4 == IF g.cfg_ack.ready THEN Append(b3, TokCfgAck) ELSE b3
         b5 == IF fota_pull_error_string(S) # "" THEN Append(b4, TokFotaError) ELSE b4
         b6 == Append(b5, TokDiag0 + g.dropped_samples)
     IN up' = [up EXCEPT !.pc = "diag", !.body = b6]
  /\ g' = [g EXCEPT !.fota_progress.has = FALSE, !.fota_report.has = FALSE,
                    !.fota_bootack = consume_bootack(g.fota_bootack),
                    !.cfg_ack = IF g.cfg_ack.ready THEN consume_cfg_ack(g.cfg_ack) ELSE g.cfg_ack,
                    !.events = IF fota_pull_error_string(S) # ""
                               THEN log_events(g.events, "fota_err", 1) ELSE g.events]
  /\ hist' = [hist EXCEPT !.built = Min(hist.built + 1, 2)]
  /\ UNCHANGED <<ring, mtx, acq, nvs, S, flash, cloud, cdc, sec, net, mbus>>

\* g_events.clear()
clear_events(events) == <<>>

\* g_dropped_samples = 0 after the diag member was written, then the
\* events array is appended and the event log cleared
UpDiag ==
  /\ up.pc = "diag"
  /\ up' = [up EXCEPT !.pc = "inc",
                      !.body = up.body \o [i \in 1..Len(g.events) |-> EventTok(g.events[i])]]
  /\ g' = [g EXCEPT !.dropped_samples = 0, !.events = clear_events(g.events)]
  /\ hist' = [hist EXCEPT !.reported = hist.reported + (up.body[Len(up.body)] - TokDiag0)]
  /\ UNCHANGED <<ring, mtx, acq, nvs, S, flash, cloud, cdc, sec, net, mbus>>

\* ++g_device_nonce
UpInc(max) ==
  /\ up.pc = "inc"
  /\ g.device_nonce < max
  /\ g' = [g EXCEPT !.device_nonce = g.device_nonce + 1]
  /\ up' = [up EXCEPT !.pc = "persist"]
  /\ UNCHANGED <<ring, mtx, acq, nvs, S, flash, cloud, hist, cdc, sec, net, mbus>>

\* nvstore::set_u64("sec","nonce_device"), then the wrap
UpPersist ==
  /\ up.pc = "persist"
  /\ nvs' = set_nonce_device(nvs, g.device_nonce)
  /\ up' = [up EXCEPT !.pc = "post",
                      !.to_send = wrap_json_with_hmac(up.body, PSK, g.device_nonce)]
  /\ UNCHANGED <<ring, mtx, acq, g, S, flash, cloud, hist, cdc, sec, net, mbus>>

\* post_payload_and_get_reply: the envelope goes out; either a reply comes back
\* (the cloud stored the body) or every attempt failed
UpPost(replies) ==
  /\ up.pc = "post"
  /\ \E ok \in BOOLEAN, doc \in replies :
       /\ up' = [up EXCEPT !.pc = "unwrap", !.ok = ok,
                           !.reply = IF ok THEN wrap_json_with_hmac(doc, PSK, cloud.nonce + 1)
                                     ELSE NoEnv]
       /\ cloud' = IF ok THEN [cloud EXCEPT !.nonce = cloud.nonce + 1] ELSE cloud
       /\ hist' = [hist EXCEPT
                     !.sent = Append(hist.sent, strtoull(up.to_send.nonce)),
                     !.delivered = IF ok THEN hist.delivered \cup BodyRecords(b64_decode(up.to_send.payload))
                                   ELSE hist.delivered,
                     !.failed = IF ok THEN hist.failed ELSE hist.failed \cup Range(up.batch)]
  /\ UNCHANGED <<ring, mtx, acq, g, nvs, S, flash, cdc, sec, net, mbus>>

\* a store that drops the write
set_nonce_cloud_dropped(store, v) == store

\* nvstore::set_u64("sec", "nonce_cloud", v)
set_nonce_cloud(store, v) == [store EXCEPT !.nonce_cloud = v]

\* a refusal that hands the payload to the dispatch all the same
rejected_inner_kept(reply) == b64_decode(reply.payload)

\* inner.clear() when the envelope is refused
rejected_inner(reply) == <<>>

\* the reply is unwrapped; an accepted one has its nonce persisted and its
\* body handed to the dispatch
UpUnwrap ==
  /\ up.pc = "unwrap"
  /\ LET res == unwrap_and_verify_envelope(up.reply, PSK, g.last_cloud_nonce, TRUE)
     IN IF up.ok /\ up.reply # NoEnv
        THEN /\ g' = [g EXCEPT !.last_cloud_nonce = res.last_seen]
             /\ nvs' = IF res.ok THEN set_nonce_cloud(nvs, res.last_seen) ELSE nvs
             /\ up' = [up EXCEPT !.pc = "config",
                                 !.inner = IF res.ok THEN res.body ELSE rejected_inner(up.reply)]
             /\ hist' = IF res.ok THEN [hist EXCEPT !.cnonces = Append(hist.cnonces, res.last_seen)]
                        ELSE hist
        ELSE /\ up' = [up EXCEPT !.pc = "config", !.inner = <<>>]
             /\ UNCHANGED <<g, nvs, hist>>
  /\ UNCHANGED <<ring, mtx, acq, S, flash, cloud, cdc, sec, net, mbus>>

\* dispatch of "config_update": the next configuration and the ack are staged
UpConfig ==
  /\ up.pc = "config"
  /\ LET u == ParseConfig(up.inner)
         r == config_update(g.cfg_cur, u.si_sec, u.regs_in)
     IN IF u.has
        THEN /\ g' = [stage_config(g, r) EXCEPT
                        !.events = log_events(log_events(g.events, "cfg_ok", Cardinality(r.ack.accepted)),
                                              "cfg_bad", Cardinality(r.ack.rejected))]
             /\ hist' = [hist EXCEPT !.cfg = [has |-> TRUE, si_sec |-> u.si_sec,
                                              regs_in |-> u.regs_in, cur |-> g.cfg_cur]]
        ELSE /\ hist' = [hist EXCEPT !.cfg = NoCfgCall]
             /\ UNCHANGED g
  /\ up' = [up EXCEPT !.pc = "command"]
  /\ UNCHANGED <<ring, mtx, acq, nvs, S, flash, cloud, cdc, sec, net, mbus>>

\* dispatch of "command": a value that is not negative is staged
UpCommand ==
  /\ up.pc = "command"
  /\ LET k == ParseCommand(up.inner)
     IN g' = IF k.has /\ k.val >= 0
             THEN [g EXCEPT !.cmd = [has_cmd |-> TRUE, export_pct |-> k.val]]
             ELSE g
  /\ up' = [up EXCEPT !.pc = "manifest"]
  /\ UNCHANGED <<ring, mtx, acq, nvs, S, flash, cloud, hist, cdc, sec, net, mbus>>

\* dispatch of "fota" / "manifest": fota::start
UpManifest ==
  /\ up.pc = "manifest"
  /\ LET m == ParseManifest(up.inner)
     IN IF m.has
        THEN \E plat \in {"ok", "no-part", "begin-fail", "read-fail"} :
               LET c == fota_start(FotaCtx(S, nvs.fota, flash, g.fota_progress), m.mf, plat)
               IN /\ S' = c.S
                  /\ nvs' = [nvs EXCEPT !.fota = c.nvs]
                  /\ flash' = c.flash
                  /\ hist' = [hist EXCEPT !.fota =
                       [op |-> "start", active |-> S.session_active,
                        match |-> duplicate_manifest(S, m.mf), written |-> S.bytes_written,
                        ret |-> c.ret]]
        ELSE UNCHANGED <<S, nvs, flash, hist>>
  /\ up' = [up EXCEPT !.pc = "chunk"]
  /\ UNCHANGED <<ring, mtx, acq, g, cloud, cdc, sec, net, mbus>>

\* the decoded lengths of the chunks the device accepted, by chunk number:
\* chunk number replaces what was accepted from that number on
accepted_lens(lens, number, b64) ==
  SubSeq(lens, 1, Min(number, Len(lens))) \o <<Len(b64_decode(b64))>>

\* dispatch of "chunk_number" / "data": fota::ingest_chunk
UpChunk ==
  /\ up.pc = "chunk"
  /\ LET k == ParseChunk(up.inner)
     IN IF k.has /\ Len(k.data) > 0
        THEN \E plat \in {"ok", "write-fail"} :
               LET c == fota_ingest_chunk(FotaCtx(S, nvs.fota, flash, g.fota_progress),
                                          k.number, k.data, plat)
               IN /\ S' = c.S
                  /\ nvs' = [nvs EXCEPT !.fota = c.nvs]
                  /\ flash' = c.flash
                  /\ g' = [g EXCEPT !.fota_progress = c.progress]
                  /\ hist' = [hist EXCEPT !.fota =
                       [op |-> "chunk", active |-> S.session_active,
                        match |-> (k.number = S.next_chunk), written |-> S.bytes_written,
                        ret |-> c.ret],
                       !.lens = IF c.ret THEN accepted_lens(hist.lens, k.number, k.data)
                                ELSE hist.lens]
        ELSE UNCHANGED <<S, nvs, flash, g, hist>>
  /\ up' = [up EXCEPT !.pc = "finalize"]
  /\ UNCHANGED <<ring, mtx, acq, cloud, cdc, sec, net, mbus>>

\* fota::finalize_and_apply; a successful apply restarts the device
\* (esp_restart)
UpFinalize ==
  /\ up.pc = "finalize"
  /\ \E plat \in {"ok", "end-fail", "setboot-fail"}, rollback \in BOOLEAN :
       LET c == fota_finalize_and_apply(FotaCtx(S, nvs.fota, flash, g.fota_progress), plat)
           store == [nvs EXCEPT !.fota = c.nvs]
       IN /\ nvs' = store
          /\ flash' = IF c.restart THEN boot_flash(c.flash, rollback) ELSE c.flash
          /\ IF c.restart
             THEN /\ S' = StateNew
                  /\ g' = GBoot(store, boot_state(c.flash, rollback) = "pending")
                  /\ ring' = RingNew
                  /\ mtx' = "free"
                  /\ acq' = AcqInit
                  /\ hist' = [hist EXCEPT !.lostAtReset = hist.lostAtReset \cup (RingLive \ {0}),
                                          !.window = <<>>, !.fota = NoFotaCall,
                                          !.bootPending = (boot_state(c.flash, rollback) = "pending"),
                                          !.built = 0, !.cfg = NoCfgCall, !.fin = NoFin,
                                          !.tick = NoTick, !.cfgs = {CfgBoot}, !.exec = NoExec]
             ELSE /\ S' = c.S
                  /\ g' = IF c.ret
                          THEN [g EXCEPT !.fota_report = [has |-> TRUE, verify_ok |-> c.ok_verify,
                                                          apply_ok |-> c.ok_apply]]
                          ELSE g
                  /\ hist' = [hist EXCEPT !.fota = NoFotaCall,
                                          !.fin = [ret |-> c.ret, ok_verify |-> c.ok_verify,
                                                   ok_apply |-> c.ok_apply]]
                  /\ UNCHANGED <<ring, mtx, acq>>
          /\ up' = IF c.restart THEN UpInit ELSE [up EXCEPT !.pc = "exec"]
  /\ UNCHANGED <<cloud, cdc, sec, net, mbus>>

\* what the write endpoint can answer to a request: nothing, the echo, the
\* echo in lower-case hex, an exception frame, and the frame of another value
lower_hex(hex) == [i \in 1..Len(hex) |-> IF hex[i] \in 10..15 THEN hex[i] + 16 ELSE hex[i]]

WriteReplies(req) ==
  {<<>>, req, lower_hex(req),
   bytes_to_hex(with_crc(<<SLAVE, 134, 3>>)),
   make_write_single(SLAVE, 8, 101)}

\* the end of the cycle: a staged command is executed and its result staged,
\* a result that was staged before is withdrawn
UpExec ==
  /\ up.pc = "exec"
  /\ IF g.cmd.has_cmd
     THEN \E resp \in WriteReplies(make_write_single(SLAVE, 8, clamp_pct(g.cmd.export_pct))) :
            LET w == set_export_power(g.cmd.export_pct, resp)
            IN /\ g' = [g EXCEPT !.cmd_res = [has_result |-> TRUE, success |-> w.ret,
                                               value |-> g.cmd.export_pct],
                                  !.cmd.has_cmd = FALSE,
                                  !.events = log_events(g.events, "sim_fault",
                                                        IF w.fault = "none" THEN 0 ELSE 1)]
               /\ hist' = [hist EXCEPT !.exec = [has |-> TRUE, percent |-> g.cmd.export_pct,
                                                  req |-> w.req, resp |-> resp, ret |-> w.ret]]
     ELSE /\ g' = [g EXCEPT !.cmd_res.has_result = FALSE]
          /\ hist' = [hist EXCEPT !.exec = NoExec]
  /\ up' = UpInit
  /\ UNCHANGED <<ring, mtx, acq, nvs, S, flash, cloud, cdc, sec, net, mbus>>

\* power loss or watchdog at any point: RAM is lost, the store and the flash stay
Reset ==
  /\ hist.resets < MaxResets
  /\ ring' = RingNew
  /\ mtx' = "free"
  /\ acq' = AcqInit
  /\ up' = UpInit
  /\ g' = GBoot(nvs, boot_state(flash, TRUE) = "pending")
  /\ S' = StateNew
  /\ flash' = boot_flash(flash, TRUE)
  /\ hist' = [hist EXCEPT !.resets = hist.resets + 1,
                          !.sentAtReset = Len(hist.sent),
                          !.lostAtReset = hist.lostAtReset \cup (RingLive \ {0}),
                          !.window = <<>>, !.fota = NoFotaCall,
                          !.bootPending = (boot_state(flash, TRUE) = "pending"),
                          !.built = 0, !.cfg = NoCfgCall, !.fin = NoFin,
                                          !.tick = NoTick, !.cfgs = {CfgBoot}, !.exec = NoExec]
  /\ UNCHANGED <<nvs, cloud, cdc, sec, net, mbus>>

\* power loss inside fota::ingest_chunk, between nvstore::set_u64(K_WR) and
\* nvstore::set_u64(K_NEXT): the chunk is in the partition, bytes_written is
\* persisted, next_chunk is not
UpChunkTorn ==
  /\ up.pc = "chunk"
  /\ hist.resets < MaxResets
  /\ LET k == ParseChunk(up.inner)
         c == fota_ingest_chunk(FotaCtx(S, nvs.fota, flash, g.fota_progress),
                                k.number, k.data, "ok")
         store == [nvs EXCEPT !.fota.bytes_written = c.nvs.bytes_written]
     IN /\ k.has /\ Len(k.data) > 0 /\ c.ret
        /\ nvs' = store
        /\ g' = GBoot(store, boot_state(c.flash, TRUE) = "pending")
        /\ flash' = boot_flash(c.flash, TRUE)
        /\ hist' = [hist EXCEPT !.resets = hist.resets + 1,
                                !.sentAtReset = Len(hist.sent),
                                !.lostAtReset = hist.lostAtReset \cup (RingLive \ {0}),
                                !.window = <<>>, !.fota = NoFotaCall,
                                !.bootPending = (boot_state(c.flash, TRUE) = "pending"),
                                !.built = 0, !.cfg = NoCfgCall, !.fin = NoFin,
                                !.tick = NoTick, !.cfgs = {CfgBoot}, !.exec = NoExec,
                                !.lens = accepted_lens(hist.lens, k.number, k.data)]
  /\ ring' = RingNew
  /\ mtx' = "free"
  /\ acq' = AcqInit
  /\ up' = UpInit
  /\ S' = StateNew
  /\ UNCHANGED <<cloud, cdc, sec, net, mbus>>

CdcIdle == [pc |-> "idle", batch |-> <<>>, blob |-> <<>>,
            out |-> [ok |-> FALSE, samples |-> <<>>, fault |-> "none"]]

SecIdle == [psk |-> PSK, last_seen |-> 0, log |-> <<>>, accepted |-> <<>>, calls |-> 0]

\* no HTTP call in progress
NetIdle ==
  [pc |-> "idle", fn |-> "none", retry_count |-> 0, backoff_base_ms |-> 0, backoff_max_ms |-> 0,
   attempt |-> 0, performed |-> 0, sleeps |-> <<>>, ok |-> FALSE]

\* no frame exchanged yet
MbIdle ==
  [op |-> "none", slave |-> 0, count |-> 0, words |-> <<>>, req |-> <<>>, frame |-> <<>>,
   pos |-> 0, out |-> [ok |-> FALSE, slave |-> -1, func |-> -1, regs |-> <<>>]]

InitDevice ==
  /\ ring = RingNew
  /\ mtx = "free"
  /\ acq = AcqInit
  /\ up = UpInit
  /\ nvs = NvsNew
  /\ g = GBoot(NvsNew, FALSE)
  /\ S = StateNew
  /\ flash = FlashNew
  /\ cloud = [nonce |-> 0]
  /\ hist = HistInit
  /\ net = NetIdle
  /\ mbus = MbIdle

Init ==
  /\ InitDevice
  /\ cdc = CdcIdle
  /\ sec = SecIdle

\* replies of a cloud that has nothing to push
RepliesPlain == {<<TokReplyOk>>}

Next ==
  \/ AcqTick \/ AcqRead(FALSE) \/ AcqTake \/ AcqPush \/ AcqGive \/ AcqCount \/ AcqDelay \/ AcqPeriod
  \/ UpPromote \/ UpTake \/ UpCopy \/ UpClear \/ UpGive \/ UpBuild \/ UpDiag \/ UpInc(MaxNonce) \/ UpPersist
  \/ UpPost(RepliesPlain) \/ UpUnwrap \/ UpConfig \/ UpCommand \/ UpManifest \/ UpChunk \/ UpFinalize \/ UpExec
  \/ Reset

Spec == Init /\ [][Next]_vars

(***************************************************************************)
(* Claims about the ring and the device nonce, under Spec.                 *)
(***************************************************************************)
Increasing(s) == \A i, j \in 1..Len(s) : i < j => s[i] < s[j]

\* C1: after a POST that failed, the records of that cycle's snapshot are
\* not lost: each is still in the ring, or was carried by a payload the
\* cloud received, or was overwritten by the overwrite-oldest policy.
C1_FailedPostLosesNothing ==
  hist.failed \subseteq
    (RingLive \cup hist.delivered \cup hist.overwritten \cup hist.lostAtReset)

\* C2: under every interleaving of the two tasks, every pushed record is
\* in exactly one of four places: returned by exactly one snapshot,
\* overwritten by a later push on a full ring, still in the ring, or gone
\* with the RAM at a reset; and every snapshot is in push order.
C2_SnapshotAtomic ==
  /\ \A id \in hist.pushed :
       LET n(b) == IF b THEN 1 ELSE 0
       IN /\ id \notin hist.twice
          /\ n(id \in hist.snapped) + n(id \in hist.overwritten)
               + n(id \in RingLive) + n(id \in hist.lostAtReset) = 1
  /\ Increasing(hist.snap.out)

\* C2 witness: the acquisition task waits with a record for the mutex that
\* the uplink task holds in the middle of its second non-empty snapshot
C2_Witness ==
  /\ mtx = "uplink" /\ up.pc = "clear" /\ acq.pc = "take"
  /\ up.batch # <<>>
  /\ hist.snapped # {}

\* C3: k pushes with no snapshot in between, then snapshot_and_clear: it
\* returns the last min(k, capacity) pushed records in push order, and
\* leaves r = w = count = 0, so that a snapshot taken right away is empty.
C3_SnapshotLastMin ==
  /\ hist.snap.out = LastN(hist.snap.window, Min(Len(hist.snap.window), RingCap))
  /\ up.pc = "give" =>
       /\ ring.r = 0 /\ ring.w = 0 /\ ring.count = 0
       /\ snapshot_copy(ring) = <<>>

\* C3 witness: more pushes than the capacity, then a snapshot
C3_Witness ==
  /\ up.pc = "give"
  /\ Len(hist.snap.window) > RingCap
  /\ Len(hist.snap.out) = RingCap

WordXor(x, y) == Word(BitXor(x.hi, y.hi), BitXor(x.lo, y.lo))

\* c >> k for 0 < k <= 16
WordShr(x, k) == Word(x.hi \div Pow2(k), (x.lo \div Pow2(k)) + (x.hi % Pow2(k)) * Pow2(16 - k))

CrcPoly == Word(60856, 33568)   \* 0xEDB88320

\* c = (c & 1) ? (0xEDB88320 ^ (c >> 1)) : (c >> 1), j times
RECURSIVE crc_entry(_, _)
crc_entry(c, j) ==
  IF j = 0 THEN c
  ELSE crc_entry(IF c.lo % 2 = 1 THEN WordXor(CrcPoly, WordShr(c, 1)) ELSE WordShr(c, 1), j - 1)

crc_table == [i \in 0..255 |-> crc_entry(Word(0, i), 8)]

\* crc = table[(crc ^ p[i]) & 0xFF] ^ (crc >> 8)
crc_step(crc, byte) == WordXor(crc_table[BitXor(crc.lo % 256, byte)], WordShr(crc, 8))

\* the loop over data[lo..hi], left to right; the range is walked in halves
\* and crc is evaluated on entry (the test on crc.lo), which keeps the
\* evaluation shallow on long blobs
RECURSIVE crc_loop(_, _, _, _)
crc_loop(crc, data, lo, hi) ==
  IF lo > hi \/ crc.lo < 0 THEN crc
  ELSE IF lo = hi THEN crc_step(crc, data[lo])
  ELSE LET mid == (lo + hi) \div 2
       IN crc_loop(crc_loop(crc, data, lo, mid), data, mid + 1, hi)

crc32_ieee(data) ==
  WordXor(crc_loop(Word(65535, 65535), data, 1, Len(data)), Word(65535, 65535))

put_u16(v) == <<v % 256, v \div 256>>

put_u32(v) == <<v.lo % 256, v.lo \div 256, v.hi % 256, v.hi \div 256>>

\* 0-based reads of a blob
At(blob, off) == blob[off + 1]

get_u16(blob, off) == At(blob, off) + 256 * At(blob, off + 1)

get_u32(blob, off) == Word(get_u16(blob, off + 2), get_u16(blob, off))

Sample(v) ==
  [vac1 |-> v[1], iac1 |-> v[2], fac1 |-> v[3], vpv1 |-> v[4], vpv2 |-> v[5],
   ipv1 |-> v[6], ipv2 |-> v[7], temp |-> v[8], export_percent |-> v[9], pac |-> v[10]]

field_view(s) ==
  <<s.vac1, s.iac1, s.fac1, s.vpv1, s.vpv2, s.ipv1, s.ipv2, s.temp, s.export_percent, s.pac>>

NFields == 10

\* one turn of the inner loop: record cur against the running value
enc_step(st, cur) ==
  LET d == (cur - st.prev) % 65536
  IN IF d = 0
     THEN IF st.zero_run = 255
          THEN [st EXCEPT !.out = st.out \o <<0, st.zero_run>>, !.zero_run = 1]
          ELSE [st EXCEPT !.zero_run = st.zero_run + 1]
     ELSE [prev |-> cur, zero_run |-> 0,
           out |-> (IF st.zero_run > 0 THEN st.out \o <<0, st.zero_run>> ELSE st.out)
                     \o <<1, d % 256, d \div 256>>]

\* the inner loop over recs[lo..hi] for field f, walked in halves like crc_loop
RECURSIVE enc_loop(_, _, _, _, _)
enc_loop(st, recs, f, lo, hi) ==
  IF lo > hi \/ st.zero_run < 0 THEN st
  ELSE IF lo = hi THEN enc_step(st, field_view(recs[lo])[f])
  ELSE LET mid == (lo + hi) \div 2
       IN enc_loop(enc_loop(st, recs, f, lo, mid), recs, f, mid + 1, hi)

\* the opcodes of one field, with the zero run left at the end flushed
enc_field(recs, f, out) ==
  LET st == enc_loop([prev |-> field_view(recs[1])[f], zero_run |-> 0, out |-> out],
                     recs, f, 2, Len(recs))
  IN IF st.zero_run > 0 THEN st.out \o <<0, st.zero_run>> ELSE st.out

RECURSIVE enc_fields(_, _, _)
enc_fields(recs, f, out) ==
  IF f > NFields THEN out
  ELSE enc_fields(recs, f + 1, enc_field(recs, f, out))

RECURSIVE put_all_u16(_, _)
put_all_u16(vals, i) == IF i > Len(vals) THEN <<>> ELSE put_u16(vals[i]) \o put_all_u16(vals, i + 1)

encode_delta_rle_v1(recs) ==
  LET n == Len(recs) % 65536
      head == <<1, NFields, n % 256, n \div 256, 0, 0, 0, 0>>
  IN IF n = 0 THEN head \o put_u32(crc32_ieee(head))
     ELSE LET out == enc_fields(recs, 1, head \o put_all_u16(field_view(recs[1]), 1))
          IN out \o put_u32(crc32_ieee(out))

DecFail == [ok |-> FALSE, samples |-> <<>>, ub |-> FALSE]

\* one field: the while (produced < n - 1) loop.  vals holds fields[f][1..];
\* a zero run longer than what is left writes past the vector (ub)
RECURSIVE dec_field(_, _, _, _, _)
dec_field(blob, n, off, last, vals) ==
  LET end == Len(blob) - 4
  IN IF Len(vals) >= n - 1 THEN [ok |-> TRUE, off |-> off, vals |-> vals, ub |-> Len(vals) > n - 1]
     ELSE IF off >= end THEN [ok |-> FALSE, off |-> off, vals |-> vals, ub |-> FALSE]
     ELSE LET op == At(blob, off)
          IN IF op = 0
             THEN IF off + 1 >= end THEN [ok |-> FALSE, off |-> off, vals |-> vals, ub |-> FALSE]
                  ELSE dec_field(blob, n, off + 2, last,
                                 vals \o [k \in 1..At(blob, off + 1) |-> last])
             ELSE IF op = 1
             THEN IF off + 3 > end THEN [ok |-> FALSE, off |-> off, vals |-> vals, ub |-> FALSE]
                  ELSE LET cur == (last + get_u16(blob, off + 1)) % 65536
                       IN dec_field(blob, n, off + 3, cur, Append(vals, cur))
             ELSE [ok |-> FALSE, off |-> off, vals |-> vals, ub |-> FALSE]

\* all fields in turn; cols[f] is fields[f] cut to n values
RECURSIVE dec_fields(_, _, _, _, _, _)
dec_fields(blob, nf, n, f, off, cols) ==
  IF f > nf THEN [ok |-> TRUE, cols |-> cols, ub |-> FALSE]
  ELSE LET first == get_u16(blob, 8 + 2 * (f - 1))
           r == dec_field(blob, n, off, first, <<>>)
       IN IF r.ub THEN [ok |-> TRUE, cols |-> cols, ub |-> TRUE]
          ELSE IF ~r.ok THEN [ok |-> FALSE, cols |-> cols, ub |-> FALSE]
          ELSE dec_fields(blob, nf, n, f + 1, r.off, Append(cols, <<first>> \o r.vals))

decode_delta_rle_v1(blob) ==
  IF Len(blob) < 12 THEN DecFail
  ELSE IF At(blob, 0) # 1 THEN DecFail
  ELSE LET nf == At(blob, 1)
           n == get_u16(blob, 2)
       IN IF Len(blob) < 8 + nf * 2 + 4 THEN DecFail
          \* fields[f][0] of an empty vector, fields[0..9] of fewer than ten
          ELSE IF (n = 0 /\ nf > 0) \/ (n > 0 /\ nf < NFields)
               THEN [ok |-> FALSE, samples |-> <<>>, ub |-> TRUE]
          ELSE LET r == dec_fields(blob, nf, n, 1, 8 + 2 * nf, <<>>)
               IN IF r.ub THEN [ok |-> FALSE, samples |-> <<>>, ub |-> TRUE]
                  ELSE IF ~r.ok THEN DecFail
                  ELSE IF get_u32(blob, Len(blob) - 4) # crc32_ieee(SubSeq(blob, 1, Len(blob) - 4))
                       THEN DecFail
                  ELSE [ok |-> TRUE, ub |-> FALSE,
                        samples |-> [i \in 1..n |-> Sample([f \in 1..NFields |-> r.cols[f][i]])]]

\* ---- the codec driven on its own ----
MaxBatch == 2      \* records per enumerated batch
LongLen == 260     \* length of the one long constant batch (a zero run past 255)

FieldVals == {0, 1, 65535}

Samples == {Sample([f \in 1..NFields |-> IF f % 2 = 1 THEN a ELSE b]) : a, b \in FieldVals}

Batches ==
  UNION {[1..k -> Samples] : k \in 0..MaxBatch}
    \cup {[i \in 1..LongLen |-> Sample([f \in 1..NFields |-> IF i = 2 THEN 7 ELSE 1])]}

CodecEncode ==
  /\ cdc.pc = "idle"
  /\ \E B \in Batches :
       cdc' = [cdc EXCEPT !.pc = "encoded", !.batch = B, !.blob = encode_delta_rle_v1(B)]
  /\ UNCHANGED <<ring, mtx, acq, up, g, nvs, S, flash, cloud, hist, sec, net, mbus>>

\* undefined behaviour may fail, crash, or go on with what was decoded
CodecDecode ==
  /\ cdc.pc = "encoded"
  /\ LET r == decode_delta_rle_v1(cdc.blob)
     IN \E o \in IF r.ub
                 THEN {[ok |-> FALSE, samples |-> <<>>, fault |-> "none"],
                       [ok |-> FALSE, samples |-> <<>>, fault |-> "crash"],
                       [ok |-> TRUE, samples |-> <<>>, fault |-> "none"]}
                 ELSE {[ok |-> r.ok, samples |-> r.samples, fault |-> "none"]} :
          cdc' = [cdc EXCEPT !.pc = "decoded", !.out = o]
  /\ UNCHANGED <<ring, mtx, acq, up, g, nvs, S, flash, cloud, hist, sec, net, mbus>>

NextCodec == CodecEncode \/ CodecDecode

SpecCodec == Init /\ [][NextCodec]_vars

\* C4: decoding the encoding of any batch, the empty batch included,
\* succeeds and gives back the batch: as many samples, the same ten
\* field values, in order.
C4_RoundTrip ==
  cdc.pc = "decoded" => (cdc.out.ok /\ cdc.out.samples = cdc.batch)

\* the round trip of the batches that hold at least one record
C4_RoundTripNonEmpty ==
  (cdc.pc = "decoded" /\ cdc.batch # <<>>) => (cdc.out.ok /\ cdc.out.samples = cdc.batch)

(***************************************************************************)
(* The envelope driven on its own: a verifier holding a PSK and its        *)
(* last_seen nonce is fed envelopes in any order.                          *)
(***************************************************************************)
MaxEnvNonce == 2   \* nonces 0..MaxEnvNonce
MaxCalls == 3      \* unwraps per behaviour

Keys == {PSK, "another-psk"}

Bodies == {<<>>, <<TokReplyOk>>}

\* what is fed: the output of wrap, the same with the MAC in upper case,
\* or a correctly MACed envelope whose payload is not Base64
Feed(kind, body, key, nonce) ==
  LET e == wrap_json_with_hmac(body, key, nonce)
  IN CASE kind = "wrapped" -> e
       [] kind = "upper"   -> [e EXCEPT !.mac.upper = TRUE]
       [] kind = "notb64"  -> [e EXCEPT !.payload = <<65>>,
                                        !.mac = hmac_sha256(key, <<e.nonce, <<65>>>>)]

Feeds ==
  {[kind |-> "wrapped", body |-> b, key |-> k, nonce |-> n] :
      b \in Bodies, k \in Keys, n \in 0..MaxEnvNonce}
  \cup {[kind |-> kd, body |-> <<TokReplyOk>>, key |-> PSK, nonce |-> n] :
      kd \in {"upper", "notb64"}, n \in 1..MaxEnvNonce}

SecUnwrap ==
  /\ sec.calls < MaxCalls
  /\ \E fd \in Feeds, b64 \in BOOLEAN :
       LET env == Feed(fd.kind, fd.body, fd.key, fd.nonce)
           res == unwrap_and_verify_envelope(env, sec.psk, sec.last_seen, b64)
           call == [feed |-> fd, env |-> env, b64 |-> b64, before |-> sec.last_seen,
                    ok |-> res.ok, body |-> res.body, after |-> res.last_seen]
       IN sec' = [sec EXCEPT !.last_seen = res.last_seen,
                             !.log = LastN(Append(sec.log, call), Min(2, Len(sec.log) + 1)),
                             !.accepted = IF res.ok THEN Append(sec.accepted, fd.nonce)
                                          ELSE sec.accepted,
                             !.calls = sec.calls + 1]
  /\ UNCHANGED <<ring, mtx, acq, up, g, nvs, S, flash, cloud, hist, cdc, net, mbus>>

InitEnv ==
  /\ InitDevice
  /\ cdc = CdcIdle
  /\ sec \in {[SecIdle EXCEPT !.psk = k] : k \in Keys}

NextEnv == SecUnwrap

SpecEnv == InitEnv /\ [][NextEnv]_vars

\* what a successful unwrap of a wrapped body returns
Unwrapped(call) == IF call.b64 THEN call.feed.body ELSE b64_encode(call.feed.body)

\* C5 as stated: an envelope made by wrap is accepted, and its body
\* returned, exactly when it was MACed with the verifier's PSK and its
\* nonce is above last_seen; an accepted envelope leaves last_seen at
\* its nonce.
C5_UnwrapIffMacAndFresh ==
  \A i \in 1..Len(sec.log) :
    LET c == sec.log[i]
    IN c.feed.kind = "wrapped" =>
         /\ c.ok <=> (c.feed.key = sec.psk /\ c.feed.nonce > c.before)
         /\ c.ok => (c.body = Unwrapped(c) /\ c.after = c.feed.nonce)

\* C5, amended: the same for every non-empty body; the envelope of an
\* empty body is rejected whatever its MAC and nonce, last_seen unchanged.
C5_UnwrapIffMacAndFreshNonEmpty ==
  \A i \in 1..Len(sec.log) :
    LET c == sec.log[i]
    IN c.feed.kind = "wrapped" =>
         IF c.feed.body # <<>>
         THEN /\ c.ok <=> (c.feed.key = sec.psk /\ c.feed.nonce > c.before)
              /\ c.ok => (c.body = Unwrapped(c) /\ c.after = c.feed.nonce)
              /\ ~c.ok => c.after = c.before
         ELSE ~c.ok /\ c.after = c.before

\* C5 witness: one wrapped envelope accepted, another refused for its key,
\* with last_seen at the accepted nonce
C5_Witness ==
  /\ Len(sec.log) = 2
  /\ sec.log[1].feed.kind = "wrapped" /\ sec.log[1].ok /\ sec.log[1].b64
  /\ sec.log[2].feed.kind = "wrapped" /\ ~sec.log[2].ok
  /\ sec.log[2].feed.key # sec.psk /\ sec.log[2].feed.nonce > sec.log[2].before
  /\ sec.last_seen = sec.log[1].feed.nonce

\* C6: the same envelope fed twice in a row, accepted the first time, is
\* refused the second time and last_seen stays at its nonce; and over any
\* sequence of unwraps the accepted nonces are strictly increasing.
C6_ReplayRefused ==
  /\ (Len(sec.log) = 2 /\ sec.log[1].env = sec.log[2].env /\ sec.log[1].ok) =>
       /\ ~sec.log[2].ok
       /\ sec.log[2].after = strtoull(sec.log[1].env.nonce)
       /\ sec.last_seen = strtoull(sec.log[1].env.nonce)
  /\ Increasing(sec.accepted)

\* C6 witness: an envelope accepted, then fed again
C6_Witness ==
  /\ Len(sec.log) = 2
  /\ sec.log[1].env = sec.log[2].env
  /\ sec.log[1].ok
  /\ Len(sec.accepted) >= 2

(***************************************************************************)
(* The uplink task against a cloud that pushes firmware: the replies carry *)
(* manifests and chunks in any order.  The acquisition task is idle.       *)
(***************************************************************************)
MaxFotaNonce == 3   \* upload cycles against the firmware-pushing cloud

RepliesFota ==
  {<<TokReplyOk>>}
    \cup {<<TokManifest0 + i>> : i \in 1..Len(Manifests)}
    \cup {<<TokChunk0 + 8 * n + d>> : n \in 0..MaxChunkNo, d \in 0..(Len(ChunkData) - 1)}
    \cup {<<TokManifest0 + i, TokChunk0 + d>> : i \in 1..2, d \in 0..2}

NextFota ==
  \/ UpPromote \/ UpTake \/ UpCopy \/ UpClear \/ UpGive \/ UpBuild \/ UpDiag \/ UpInc(MaxFotaNonce) \/ UpPersist
  \/ UpPost(RepliesFota) \/ UpUnwrap \/ UpConfig \/ UpCommand \/ UpManifest \/ UpChunk \/ UpFinalize \/ UpExec
  \/ Reset

SpecFota == Init /\ [][NextFota]_vars

\* the decoded manifest and chunk of the reply being dispatched
InMf == ParseManifest(up.inner)
InChunk == ParseChunk(up.inner)

\* C8: the boot partition changes only in finalize_and_apply, and only
\* when bytes_written equals the manifest size and the SHA-256 of the
\* bytes streamed equals the one hash_hex spells; the device then resets.
\* In every other step and outcome the boot partition stays as it was.
C8_BootSwitchOnlyVerified ==
  [][flash'.boot # flash.boot =>
       /\ up.pc = "finalize"
       /\ S.session_active /\ ~S.finalized
       /\ S.bytes_written = S.mf.size
       /\ S.mf.hash_hex.wellformed
       /\ S.sha = S.mf.hash_hex.h
       /\ S' = StateNew /\ up' = UpInit]_vars

\* C8 witness: an image was verified and the boot partition switched
C8_Witness == flash.boot = "ota" /\ flash.img = ImageB

\* C9: with a session active, a chunk whose number is not next_chunk is
\* refused with last_error = out-of-order, and bytes_written, next_chunk,
\* the hash state and the persisted progress stay as they were.
C9_OutOfOrderRefused ==
  [][(up.pc = "chunk" /\ up'.pc = "finalize" /\ InChunk.has /\ S.session_active
        /\ InChunk.number # S.next_chunk) =>
       /\ S'.last_error = "out-of-order"
       /\ S'.bytes_written = S.bytes_written
       /\ S'.next_chunk = S.next_chunk
       /\ S'.sha = S.sha
       /\ nvs'.fota = nvs.fota]_vars

\* the same for a session that is still downloading (its hash running,
\* no finalize attempted yet)
C9_OutOfOrderWhileDownloading ==
  [][(up.pc = "chunk" /\ up'.pc = "finalize" /\ InChunk.has /\ S.session_active /\ S.sha_init /\ ~S.finalized
        /\ InChunk.number # S.next_chunk) =>
       /\ S'.last_error = "out-of-order"
       /\ S'.bytes_written = S.bytes_written
       /\ S'.next_chunk = S.next_chunk
       /\ S'.sha = S.sha
       /\ nvs'.fota = nvs.fota]_vars

\* C10: with a session active, start with a manifest of the same version,
\* hash_hex and size leaves bytes_written, next_chunk and the persisted
\* progress as they were, at any point of the download.
C10_StartIdempotent ==
  [][(up.pc = "manifest" /\ up'.pc = "chunk" /\ InMf.has /\ S.session_active
        /\ InMf.mf.version = S.mf.version
        /\ InMf.mf.hash_hex = S.mf.hash_hex
        /\ InMf.mf.size = S.mf.size) =>
       /\ S'.bytes_written = S.bytes_written
       /\ S'.next_chunk = S.next_chunk
       /\ nvs'.fota = nvs.fota]_vars

\* C10 witness: the active manifest came again in the middle of the download
C10_Witness ==
  /\ up.pc = "chunk"
  /\ hist.fota.op = "start" /\ hist.fota.active /\ hist.fota.match
  /\ hist.fota.written > 0 /\ hist.fota.written < FwSize
  /\ S.bytes_written = hist.fota.written

\* a start of the manifest the store holds, on a device that has no session
\* (it was reset during the download), which succeeded
ReplayAfterReset ==
  /\ up.pc = "manifest" /\ up'.pc = "chunk" /\ InMf.has
  /\ ~S.session_active
  /\ nvs.fota.ver = InMf.mf.version
  /\ nvs.fota.hash = InMf.mf.hash_hex
  /\ nvs.fota.size = InMf.mf.size
  /\ nvs.fota.bytes_written < nvs.fota.size
  /\ S'.session_active /\ S'.sha_init /\ S'.last_error = ""

\* C11: when the device was reset during a download and the identical
\* manifest comes again, start resumes with bytes_written and next_chunk
\* equal to the persisted values, and get_next_chunk_for_cloud returns that
\* next_chunk: the replay never sets next_chunk back.
C11_ManifestReplayResumes ==
  [][ReplayAfterReset =>
       /\ S'.bytes_written = nvs.fota.bytes_written
       /\ S'.next_chunk = nvs.fota.next_chunk
       /\ get_next_chunk_for_cloud(S') = nvs.fota.next_chunk]_vars

\* the same while the persisted next_chunk is at most the number of chunks
\* the manifest's chunk_size gives
C11_ResumeWithinChunkCount ==
  [][(ReplayAfterReset
        /\ nvs.fota.next_chunk <=
             (InMf.mf.size + InMf.mf.chunk_size - 1) \div InMf.mf.chunk_size) =>
       /\ S'.bytes_written = nvs.fota.bytes_written
       /\ S'.next_chunk = nvs.fota.next_chunk
       /\ get_next_chunk_for_cloud(S') = nvs.fota.next_chunk]_vars

\* a finalize_and_apply call on a session that holds all size bytes, whose
\* hash_hex is well formed and spells another digest than the bytes give
FinalizeMismatch ==
  /\ up.pc = "finalize" /\ up'.pc = "exec" /\ hist'.resets = hist.resets
  /\ S.session_active /\ ~S.finalized /\ S.sha_init
  /\ S.bytes_written = S.mf.size
  /\ S.mf.hash_hex.wellformed
  /\ S.sha # S.mf.hash_hex.h

\* C12: with all size bytes present and a SHA-256 that differs from
\* hash_hex, finalize_and_apply gives (verify_ok, apply_ok) = (false, false),
\* the progress counters bytes_written and next_chunk (of the session, as
\* status_json reports them, and of the store) are cleared, and the boot
\* partition stays as it was.
C12_VerifyFailureClears ==
  [][FinalizeMismatch =>
       /\ ~hist'.fin.ok_verify /\ ~hist'.fin.ok_apply
       /\ S'.bytes_written = 0 /\ S'.next_chunk = 0
       /\ nvs'.fota.bytes_written = 0 /\ nvs'.fota.next_chunk = 0
       /\ flash'.boot = flash.boot]_vars

\* what does hold: the result is (false, false), the boot partition stays,
\* and the persisted counters are cleared once the writer was closed
C12_VerifyFailureKeepsBoot ==
  [][FinalizeMismatch =>
       /\ ~hist'.fin.ret /\ ~hist'.fin.ok_verify /\ ~hist'.fin.ok_apply
       /\ flash'.boot = flash.boot
       /\ S'.last_error # "ota-end" =>
            (S'.finalized /\ nvs'.fota.bytes_written = 0 /\ nvs'.fota.next_chunk = 0)]_vars

\* C13: after a verification failure the engine is back in Idle: no session
\* is active and get_next_chunk_for_cloud returns 0, and a later start, also
\* with the same manifest, begins a fresh session (hash running, not
\* finalized, bytes_written and next_chunk 0), which is one that accepts
\* chunk 0.
C13_VerifyFailedReturnsToIdle ==
  [][/\ S.finalized => (~S.session_active /\ get_next_chunk_for_cloud(S) = 0)
     /\ (up.pc = "manifest" /\ up'.pc = "chunk" /\ InMf.has /\ S.finalized
           /\ hist'.fota.ret) =>
          (S'.session_active /\ S'.sha_init /\ ~S'.finalized /\ S'.next_chunk = 0
             /\ S'.bytes_written = 0)]_vars

\* the start of another manifest after a verification failure does begin a
\* fresh session
C13_OtherManifestStartsFresh ==
  [][(up.pc = "manifest" /\ up'.pc = "chunk" /\ InMf.has /\ S.finalized
        /\ ~duplicate_manifest(S, InMf.mf) /\ hist'.fota.ret) =>
       (S'.session_active /\ S'.sha_init /\ ~S'.finalized /\ S'.next_chunk = 0
          /\ S'.bytes_written = 0)]_vars

\* a step in which ingest_chunk was called / fota::start was called / the
\* device went through app_main again
ChunkStep == up.pc = "chunk" /\ up'.pc = "finalize" /\ InChunk.has
StartStep == up.pc = "manifest" /\ up'.pc = "chunk" /\ InMf.has
BootStep  == hist'.resets # hist.resets \/ (up.pc = "finalize" /\ S' = StateNew)

\* C14: within a session the accepted chunk numbers are consecutive: a chunk
\* is accepted only with number = next_chunk, it advances next_chunk by one
\* and bytes_written by its decoded length, both are persisted, and
\* finalize_requested is set exactly when bytes_written = size; between two
\* accepted chunks only a start or a reboot changes the counters, so no
\* number is accepted twice.
C14_ChunksConsecutive ==
  [][/\ (ChunkStep /\ hist'.fota.ret) =>
          /\ InChunk.number = S.next_chunk
          /\ S'.next_chunk = S.next_chunk + 1
          /\ S'.bytes_written = S.bytes_written + Len(b64_decode(InChunk.data))
          /\ Len(b64_decode(InChunk.data)) > 0
          /\ nvs'.fota.bytes_written = S'.bytes_written
          /\ nvs'.fota.next_chunk = S'.next_chunk
          /\ S'.finalize_requested <=> (S'.bytes_written = S'.mf.size)
     /\ ~((ChunkStep /\ hist'.fota.ret) \/ StartStep \/ BootStep) =>
          /\ S'.next_chunk = S.next_chunk
          /\ S'.bytes_written = S.bytes_written
          /\ nvs'.fota.next_chunk \in {nvs.fota.next_chunk, 0}]_vars

\* C14 witness: chunks 0 and 1 were accepted one after the other
C14_Witness ==
  /\ up.pc = "finalize" /\ hist.fota.op = "chunk" /\ hist.fota.ret
  /\ hist.fota.written > 0
  /\ S.next_chunk = 2 /\ nvs.fota.next_chunk = 2
  /\ S.bytes_written = FwSize /\ S.finalize_requested

\* C15: bytes_written never passes the manifest size; a chunk whose decoded
\* length would push it past size is refused with overflow and leaves
\* bytes_written and next_chunk (and the persisted progress) as they were.
C15_NeverPastSize ==
  [][/\ S.bytes_written <= S.mf.size
     /\ S'.bytes_written <= S'.mf.size
     /\ nvs.fota.bytes_written <= nvs.fota.size
     /\ (ChunkStep /\ S.session_active /\ S.sha_init /\ ~S.finalized
           /\ InChunk.number = S.next_chunk
           /\ Len(b64_decode(InChunk.data)) > 0
           /\ S.bytes_written + Len(b64_decode(InChunk.data)) > S.mf.size) =>
          /\ ~hist'.fota.ret /\ S'.last_error = "overflow"
          /\ S'.bytes_written = S.bytes_written /\ S'.next_chunk = S.next_chunk
          /\ nvs'.fota = nvs.fota /\ flash'.img = flash.img]_vars

\* C15 witness: a chunk that would have passed the size was refused in the
\* middle of a download
C15_Witness ==
  /\ up.pc = "finalize" /\ hist.fota.op = "chunk" /\ ~hist.fota.ret /\ hist.fota.match
  /\ S.last_error = "overflow"
  /\ S.bytes_written > 0 /\ S.bytes_written < S.mf.size

AbortingErrors == {"overflow", "ota-write", "ota-end", "set-boot", "bad-hash-format"}

\* C16: an error of kind overflow, ota-write, ota-end, set-boot or
\* bad-hash-format aborts the session (no session is active afterwards and
\* no chunk is accepted until a new start), out-of-order lets the session
\* go on with unchanged counters, and in both cases the error string goes
\* out as fota.error in the next payload built.
C16_ErrorsAbortOrContinue ==
  [][/\ S.last_error \in AbortingErrors => ~S.session_active
     /\ (ChunkStep /\ S.last_error \in AbortingErrors) => ~hist'.fota.ret
     /\ (ChunkStep /\ S'.last_error = "out-of-order" /\ S.last_error # "out-of-order") =>
          (S'.session_active /\ S'.sha_init /\ S'.bytes_written = S.bytes_written
             /\ S'.next_chunk = S.next_chunk)
     /\ (up.pc = "build" /\ up'.pc = "diag" /\ S.last_error # "") =>
          TokFotaError \in Range(up'.body)]_vars

\* what does hold: bad-hash-format, ota-end and set-boot leave a session
\* that accepts no chunk (its hash is closed), out-of-order leaves the
\* session as it was, and every error is in the next payload
C16_ErrorsReported ==
  [][/\ (ChunkStep /\ S.last_error \in {"ota-end", "set-boot", "bad-hash-format"}) =>
          ~hist'.fota.ret
     /\ (ChunkStep /\ S'.last_error = "out-of-order" /\ S.last_error # "out-of-order") =>
          (S'.session_active /\ S'.sha_init /\ S'.bytes_written = S.bytes_written
             /\ S'.next_chunk = S.next_chunk)
     /\ (up.pc = "build" /\ up'.pc = "diag") =>
          (TokFotaError \in Range(up'.body) <=> S.last_error # "")]_vars

\* C17: a payload carries fota.boot_ok exactly when it is the first payload
\* built after a boot into an image that was pending verification; that
\* boot marked the image valid.  No later payload of that boot carries it,
\* and without such a boot none does.
C17_BootOkOnce ==
  /\ up.body # <<>> =>
       (TokFotaBootOk \in Range(up.body) <=> (hist.bootPending /\ hist.built = 1))
  /\ g.fota_bootack <=> (hist.bootPending /\ hist.built = 0)
  /\ hist.bootPending => (flash.boot = "ota" /\ flash.state = "valid")

\* C17 witness: the first payload after the boot into the new image
C17_Witness ==
  /\ up.pc = "post" /\ hist.bootPending /\ hist.built = 1
  /\ TokFotaBootOk \in Range(b64_decode(up.to_send.payload))
  /\ flash.img = ImageA

\* the payload after that one is built without it
C17_WitnessLater ==
  /\ up.pc = "inc" /\ hist.bootPending /\ hist.built = 2
  /\ TokFotaBootOk \notin Range(up.body)

(***************************************************************************)
(* The uplink task against a cloud that pushes configuration updates.      *)
(***************************************************************************)
RepliesCfg ==
  {<<TokReplyOk>>} \cup {<<TokConfig0 + k>> : k \in 1..Len(ConfigUpdates)}

NextCfg ==
  \/ UpPromote \/ UpTake \/ UpCopy \/ UpClear \/ UpGive \/ UpBuild \/ UpDiag \/ UpInc(MaxNonce) \/ UpPersist
  \/ UpPost(RepliesCfg) \/ UpUnwrap \/ UpConfig \/ UpCommand \/ UpManifest \/ UpChunk \/ UpFinalize \/ UpExec
  \/ Reset

SpecCfg == Init /\ [][NextCfg]_vars

\* the names of §4.8, lower case
KnownNames ==
  {"voltage", "vac1", "current", "iac1", "frequency", "fac1", "vpv1", "vpv2",
   "ipv1", "ipv2", "temperature", "temp", "export_percent", "export", "pac", "power"}

HasUnknownName(regs) == \E i \in 1..Len(regs) : lower(regs[i]) \notin KnownNames

\* the configuration update of this boot's last reply has been dispatched
\* and the cycle after it has begun (its promotion is done)
Promoted == hist.cfg.has /\ up.pc \notin {"promote", "command", "manifest", "chunk", "finalize", "exec"}

\* ... has been dispatched, and the cycle is still the one of the reply
Dispatched == hist.cfg.has /\ up.pc \in {"command", "manifest", "chunk", "finalize", "exec"}

\* C18: a config_update with an unknown register name anywhere in registers
\* has registers in rejected, and after the next promotion current.fields is
\* the field set it was before the update; the sampling_interval of the
\* same update is current then.
C18_UnknownRegisterRejected ==
  /\ (Dispatched /\ HasUnknownName(hist.cfg.regs_in)) =>
       /\ g.cfg_ack.ready /\ "registers" \in g.cfg_ack.rejected
       /\ "registers" \notin (g.cfg_ack.accepted \cup g.cfg_ack.unchanged)
       /\ g.cfg_next.fields = hist.cfg.cur.fields
       /\ g.cfg_cur = hist.cfg.cur
  /\ (Promoted /\ HasUnknownName(hist.cfg.regs_in)) =>
       /\ g.cfg_cur.fields = hist.cfg.cur.fields
       /\ hist.cfg.si_sec # 0 =>
            g.cfg_cur.sampling_interval_ms = mul1000_u32(hist.cfg.si_sec)

\* C18 witness: a narrowed field set and a new interval survived an update
\* whose registers list ended in an unknown name
C18_Witness ==
  /\ Promoted /\ hist.cfg.regs_in = <<"vac1", "Bogus">> /\ hist.cfg.si_sec = 10
  /\ hist.cfg.cur.fields = <<0, 9>>
  /\ hist.cfg.cur.sampling_interval_ms = Word(0, SamplePeriodMs)
  /\ g.cfg_cur.fields = <<0, 9>>
  /\ g.cfg_cur.sampling_interval_ms = Word(0, 10000)

\* the ids a valid registers list names
IdSet(regs) == {field_id(lower(regs[i])) : i \in 1..Len(regs)}

\* si seconds are the interval ms (a uint32_t in halves), in plain arithmetic
SameInterval(si, ms) == si < 2000000 /\ ms.hi < 16384 /\ si * 1000 = ms.hi * 65536 + ms.lo

\* the class the ack gives a key, "none" when it is in no list or in several
ClassOf(key) ==
  IF key \in g.cfg_ack.accepted /\ key \notin (g.cfg_ack.rejected \cup g.cfg_ack.unchanged)
    THEN "accepted"
  ELSE IF key \in g.cfg_ack.rejected /\ key \notin (g.cfg_ack.accepted \cup g.cfg_ack.unchanged)
    THEN "rejected"
  ELSE IF key \in g.cfg_ack.unchanged /\ key \notin (g.cfg_ack.accepted \cup g.cfg_ack.rejected)
    THEN "unchanged"
  ELSE "none"

\* the classification of registers the claim gives, and next.fields
RegistersClassified ==
  LET regs == hist.cfg.regs_in
      cur  == hist.cfg.cur
  IN /\ ClassOf("registers") # "none"
     /\ Len(regs) = 0 => ClassOf("registers") = "unchanged"
     /\ (Len(regs) > 0 /\ ~HasUnknownName(regs) /\ IdSet(regs) = Range(cur.fields)) =>
          ClassOf("registers") = "unchanged"
     /\ (Len(regs) > 0 /\ ~HasUnknownName(regs) /\ IdSet(regs) # Range(cur.fields)) =>
          /\ ClassOf("registers") = "accepted"
          /\ Range(g.cfg_next.fields) = IdSet(regs)
          /\ Increasing(g.cfg_next.fields)
     /\ ClassOf("registers") # "accepted" => g.cfg_next.fields = cur.fields

\* C19: a config_update puts each of sampling_interval and registers into
\* exactly one of accepted, rejected, unchanged.  sampling_interval omitted
\* or equal to the current interval is unchanged, any other positive integer
\* is accepted; registers omitted is unchanged, the current set in any
\* order, with duplicates or synonyms is unchanged, any other valid list is
\* accepted with next.fields the deduplicated list sorted by field id.
C19_KeysClassified ==
  Dispatched =>
    /\ ClassOf("sampling_interval") # "none"
    /\ (hist.cfg.si_sec = 0
          \/ SameInterval(hist.cfg.si_sec, hist.cfg.cur.sampling_interval_ms)) =>
         ClassOf("sampling_interval") = "unchanged"
    /\ (hist.cfg.si_sec > 0
          /\ ~SameInterval(hist.cfg.si_sec, hist.cfg.cur.sampling_interval_ms)) =>
         ClassOf("sampling_interval") = "accepted"
    /\ RegistersClassified

\* the same for intervals whose milliseconds fit a uint32_t
MaxSiSec == 4294967   \* 1000 * MaxSiSec is the largest product below 2^32
C19_KeysClassifiedInRange ==
  (Dispatched /\ hist.cfg.si_sec <= MaxSiSec) =>
    /\ ClassOf("sampling_interval") # "none"
    /\ (hist.cfg.si_sec = 0
          \/ SameInterval(hist.cfg.si_sec, hist.cfg.cur.sampling_interval_ms)) =>
         ClassOf("sampling_interval") = "unchanged"
    /\ (hist.cfg.si_sec > 0
          /\ ~SameInterval(hist.cfg.si_sec, hist.cfg.cur.sampling_interval_ms)) =>
         (ClassOf("sampling_interval") = "accepted"
            /\ g.cfg_next.sampling_interval_ms = mul1000_u32(hist.cfg.si_sec))
    /\ RegistersClassified

\* C20: the current configuration changes only by the promotion of next at
\* the top of an upload cycle, before that cycle's snapshot of the ring (a
\* boot sets it anew); the dispatch of a config_update writes next, the
\* pending flag and the staged ack, and leaves current as it is.
C20_CurrentOnlyByPromotion ==
  [][/\ (g'.cfg_cur # g.cfg_cur /\ ~BootStep) =>
          /\ up.pc = "promote" /\ up'.pc = "take"
          /\ up.batch = <<>> /\ mtx # "uplink"
          /\ g.has_pending_cfg /\ g'.cfg_cur = g.cfg_next /\ ~g'.has_pending_cfg
     /\ (up.pc = "config" /\ up'.pc = "command") =>
          /\ g'.cfg_cur = g.cfg_cur
          /\ g' = [g EXCEPT !.cfg_next = g'.cfg_next,
                            !.has_pending_cfg = g'.has_pending_cfg,
                            !.cfg_ack = g'.cfg_ack,
                            !.events = g'.events]
          /\ UNCHANGED <<ring, nvs, S, flash>>]_vars

\* C20 witness: an accepted update was dispatched (current still the old
\* configuration, next the new one) ...
C20_Witness ==
  /\ Dispatched /\ g.has_pending_cfg
  /\ g.cfg_next.fields = <<0, 9>> /\ g.cfg_next.sampling_interval_ms = Word(0, 10000)
  /\ g.cfg_cur = CfgBoot

\* ... and promoted at the top of the following cycle
C20_WitnessPromoted ==
  /\ up.pc = "take" /\ Promoted /\ ~g.has_pending_cfg
  /\ g.cfg_cur.fields = <<0, 9>> /\ g.cfg_cur.sampling_interval_ms = Word(0, 10000)

(***************************************************************************)
(* Both tasks, against a cloud that pushes one configuration update which  *)
(* changes the sampling interval and the field set.                        *)
(***************************************************************************)
RepliesTick ==
  {<<TokReplyOk>>}
    \cup {<<TokConfig0 + k>> : k \in {j \in 1..Len(ConfigUpdates) :
                                        /\ ConfigUpdates[j].si_sec = 10
                                        /\ ConfigUpdates[j].regs_in = <<"voltage", "power">>}}

NextTick ==
  \/ AcqTick \/ AcqRead(FALSE) \/ AcqTake \/ AcqPush \/ AcqGive \/ AcqCount \/ AcqDelay \/ AcqPeriod
  \/ UpPromote \/ UpTake \/ UpCopy \/ UpClear \/ UpGive \/ UpBuild \/ UpDiag \/ UpInc(MaxNonce) \/ UpPersist
  \/ UpPost(RepliesTick) \/ UpUnwrap \/ UpConfig \/ UpCommand \/ UpManifest \/ UpChunk \/ UpFinalize \/ UpExec

SpecTick == Init /\ [][NextTick]_vars

\* C21: every tick the acquisition task completes used a sampling interval
\* and a field set that belong to one and the same ConfigState, one that was
\* current since boot (so a promoted interval and field set take effect
\* together).
C21_TickUsesOneConfig ==
  hist.tick.done =>
    [sampling_interval_ms |-> hist.tick.period_ms, fields |-> hist.tick.fids] \in hist.cfgs

\* the body built in this cycle is still the one in up.body, and the reply
\* of this cycle has not been dispatched yet
BodyBuilt == up.pc \in {"diag", "inc", "persist", "post", "unwrap", "config"}

\* how often a member occurs in a body
Occurs(body, tok) == Cardinality({i \in 1..Len(body) : body[i] = tok})

\* C22: a reply with config_update stages one config_ack (the classification
\* of its keys); the payload of a cycle carries config_ack, once, exactly when
\* the reply of the cycle before it (in this boot) carried config_update, with
\* or without samples in the window, and nothing stays staged after the build.
C22_AckInNextPayloadOnly ==
  /\ BodyBuilt =>
        /\ Occurs(up.body, TokCfgAck) = (IF hist.cfg.has THEN 1 ELSE 0)
        /\ g.cfg_ack = NoAck
  /\ ~BodyBuilt =>
        g.cfg_ack = (IF hist.cfg.has
                     THEN config_update(hist.cfg.cur, hist.cfg.si_sec, hist.cfg.regs_in).ack
                     ELSE NoAck)

\* an ack goes out in a payload that carries samples
C22_Witness ==
  /\ up.pc = "post" /\ hist.cfg.has /\ Len(up.batch) > 0
  /\ Occurs(up.body, TokCfgAck) = 1 /\ up.body[1] = TokCodecDelta

\* an ack goes out in a payload without samples
C22_WitnessEmpty ==
  /\ up.pc = "post" /\ hist.cfg.has /\ up.batch = <<>>
  /\ Occurs(up.body, TokCfgAck) = 1 /\ up.body[1] = TokCodecNone

(***************************************************************************)
(* Both tasks, against a cloud that pushes commands.                       *)
(***************************************************************************)
RepliesCmd ==
  {<<TokReplyOk>>} \cup {<<TokCommand0 + k>> : k \in 1..Len(CmdValues)}

NextCmd ==
  \/ AcqTick \/ AcqRead(FALSE) \/ AcqTake \/ AcqPush \/ AcqGive \/ AcqCount \/ AcqDelay \/ AcqPeriod
  \/ UpPromote \/ UpTake \/ UpCopy \/ UpClear \/ UpGive \/ UpBuild \/ UpDiag \/ UpInc(MaxNonce) \/ UpPersist
  \/ UpPost(RepliesCmd) \/ UpUnwrap \/ UpConfig \/ UpCommand \/ UpManifest \/ UpChunk \/ UpFinalize \/ UpExec

SpecCmd == Init /\ [][NextCmd]_vars

\* C23: the payload of a cycle carries command_result, once, exactly when a
\* command was executed at the end of the cycle before it, whether or not
\* the window has samples.
C23_ResultInNextPayloadOnly ==
  BodyBuilt => Occurs(up.body, TokCmdResult) = (IF hist.exec.has THEN 1 ELSE 0)

\* C23, as the code has it: command_result is in the payload exactly when a
\* command was executed at the end of the cycle before it and the window has
\* samples; a result that meets an empty window is never sent.
C23_ResultOnlyWithSamples ==
  /\ BodyBuilt =>
        Occurs(up.body, TokCmdResult) = (IF hist.exec.has /\ Len(up.batch) > 0 THEN 1 ELSE 0)
  /\ g.cmd_res.has_result = hist.exec.has

\* the frame bytes of the request that was sent for the last executed command
ExecBytes == hex_to_bytes(hist.exec.req)

\* C24: the command executed at the end of the last cycle was sent once as
\* make_write_single(0x11, 8, clamp(v, 0, 100)); the staged result has status
\* success exactly when the reply was the echo of that frame, and its value
\* is the value that was written.
C24_ResultMatchesWrite ==
  hist.exec.has =>
    /\ g.cmd_res.has_result
    /\ hist.exec.req = make_write_single(SLAVE, 8, clamp_pct(hist.exec.percent))
    /\ g.cmd_res.success <=> (hist.exec.resp = hist.exec.req)
    /\ g.cmd_res.value = 256 * ExecBytes[5] + ExecBytes[6]

\* C24, the part the code keeps: the frame that is sent is for slave 0x11,
\* function 6, register 8 and a value in 0..100 that is the clamped command
\* value, and the command is consumed by the call (so it is sent once).
C24_WriteClamped ==
  hist.exec.has =>
    /\ SubSeq(ExecBytes, 1, 4) = <<SLAVE, 6, 0, 8>>
    /\ 256 * ExecBytes[5] + ExecBytes[6] = clamp_pct(hist.exec.percent)
    /\ 256 * ExecBytes[5] + ExecBytes[6] \in 0..100
    /\ up.pc \notin {"manifest", "chunk", "finalize", "exec"} => ~g.cmd.has_cmd
    /\ g.cmd_res.success = hist.exec.ret

(***************************************************************************)
(* The uplink task against a channel that also delivers forged and         *)
(* replayed replies, with resets.                                          *)
(***************************************************************************)
\* one reply that carries everything the dispatch looks for
DocAll == <<TokConfig0 + 23, TokCommand0 + 3, TokManifest0 + 1, TokChunk0>>

RepliesAdv == {<<TokReplyOk>>, DocAll, <<TokManifest0 + 1, TokChunk0>>}

\* a 2xx reply that the cloud did not just make: an envelope under another
\* key, or under the right key with a nonce the cloud has used already
UpPostForged(replies) ==
  /\ up.pc = "post"
  /\ \E doc \in replies, key \in {PSK, "another-psk"}, n \in 0..(cloud.nonce + 1) :
       /\ key # PSK \/ n <= cloud.nonce
       /\ up' = [up EXCEPT !.pc = "unwrap", !.ok = TRUE,
                           !.reply = wrap_json_with_hmac(doc, key, n)]
       /\ hist' = [hist EXCEPT !.sent = Append(hist.sent, strtoull(up.to_send.nonce))]
  /\ UNCHANGED <<ring, mtx, acq, g, nvs, S, flash, cloud, cdc, sec, net, mbus>>

NextAdv ==
  \/ UpPromote \/ UpTake \/ UpCopy \/ UpClear \/ UpGive \/ UpBuild \/ UpDiag \/ UpInc(MaxFotaNonce) \/ UpPersist
  \/ UpPost(RepliesAdv) \/ UpPostForged(RepliesAdv)
  \/ UpUnwrap \/ UpConfig \/ UpCommand \/ UpManifest \/ UpChunk \/ UpFinalize \/ UpExec
  \/ Reset

SpecAdv == Init /\ [][NextAdv]_vars

\* the reply about to be unwrapped has a wrong MAC or a nonce that is not
\* greater than the last one seen
BadMac == ~eq_ci_hex(hmac_sha256(PSK, <<up.reply.nonce, up.reply.payload>>), up.reply.mac)
StaleNonce == strtoull(up.reply.nonce) <= g.last_cloud_nonce
BadReply ==
  /\ up.ok /\ up.reply # NoEnv /\ Len(up.reply.payload) > 0
  /\ BadMac \/ StaleNonce

\* C25: the unwrap of a reply with a bad MAC or a stale nonce leaves the
\* cloud nonce in memory and in the store, both configurations, the command
\* and the FOTA session as they were and hands an empty document to the
\* dispatch; the dispatch of an empty document changes none of them either;
\* the cycle goes on to the dispatch without another POST.
C25_BadReplyIgnored ==
  [][/\ (up.pc = "unwrap" /\ BadReply /\ hist'.resets = hist.resets) =>
          /\ up'.pc = "config" /\ up'.inner = <<>>
          /\ UNCHANGED <<g, nvs, S, flash, cloud>>
          /\ hist'.sent = hist.sent
     /\ (up.pc \in {"config", "command", "manifest", "chunk"} /\ up.inner = <<>>
           /\ hist'.resets = hist.resets) =>
          /\ UNCHANGED <<g, nvs, S, flash, cloud>>
          /\ hist'.sent = hist.sent]_vars

\* a reply with a wrong MAC that carries a config_update, a command, a
\* manifest and a chunk has been refused while a FOTA session is active
C25_Witness ==
  /\ up.pc = "config" /\ BadReply /\ BadMac /\ ~StaleNonce /\ up.inner = <<>>
  /\ b64_decode(up.reply.payload) = DocAll
  /\ S.session_active /\ g.last_cloud_nonce > 0

\* the same for a reply under the right key with a nonce seen before
C25_WitnessReplay ==
  /\ up.pc = "config" /\ BadReply /\ ~BadMac /\ StaleNonce /\ up.inner = <<>>
  /\ b64_decode(up.reply.payload) = DocAll
  /\ S.session_active /\ g.last_cloud_nonce > 0

MaxRingPush == 5

\* push(rec) with the next record; hist.over counts the pushes made on a
\* full ring since the last get_and_clear_dropped
RingPush ==
  /\ hist.made < MaxRingPush
  /\ ring' = push(ring, hist.made + 1)
  /\ hist' = [hist EXCEPT !.made = hist.made + 1,
                          !.over = hist.over + (IF ring.count = RingCap THEN 1 ELSE 0),
                          !.rop = [op |-> "push", before |-> ring, rec |-> hist.made + 1,
                                   ovf |-> push_overflow(ring), n |-> 0, out |-> <<>>]]
  /\ UNCHANGED <<mtx, acq, up, g, nvs, S, flash, cloud, cdc, sec, net, mbus>>

\* snapshot_and_clear()
RingSnapshot ==
  /\ ring' = snapshot_clear(ring)
  /\ hist' = [hist EXCEPT !.rop = [op |-> "snapshot", before |-> ring, rec |-> 0,
                                   ovf |-> FALSE, n |-> 0, out |-> snapshot_copy(ring)]]
  /\ UNCHANGED <<mtx, acq, up, g, nvs, S, flash, cloud, cdc, sec, net, mbus>>

\* get_and_clear_dropped()
RingGetDropped ==
  /\ LET d == get_and_clear_dropped(ring)
     IN /\ ring' = d.ring
        /\ hist' = [hist EXCEPT !.over = 0,
                                !.rop = [op |-> "dropped", before |-> ring, rec |-> hist.over,
                                         ovf |-> FALSE, n |-> d.out, out |-> <<>>]]
  /\ UNCHANGED <<mtx, acq, up, g, nvs, S, flash, cloud, cdc, sec, net, mbus>>

NextRing == RingPush \/ RingSnapshot \/ RingGetDropped

SpecRing == Init /\ [][NextRing]_vars

C27_WitnessAgain ==
  /\ hist.rop.op = "dropped" /\ hist.rop.n = 0
  /\ hist.rop.before.dropped = 0
  /\ hist.made = RingCap + 1 /\ ring.count = RingCap

\* the push on the full ring has just returned true
C27_WitnessPush ==
  /\ hist.rop.op = "push" /\ hist.rop.ovf /\ ring.dropped = 1

(***************************************************************************)
(* HTTP calls with retries: transport::post_frame and the upload POST      *)
(* uplink::post_payload_and_get_reply.  Each attempt succeeds or fails;    *)
(* net.sleeps is the list of the delays slept, in order.                   *)
(***************************************************************************)
MaxRetries == 3
BaseValues == {0, 200, 1000}
MaxValues  == {0, 300, 2000, 4000}

\* transport::set_retry_policy
transport_set_retry_policy(retries, base_backoff_ms, max_backoff_ms) ==
  [retry_count     |-> IF retries > 0 THEN retries ELSE 1,
   backoff_base_ms |-> IF base_backoff_ms > 0 THEN base_backoff_ms ELSE 200,
   backoff_max_ms  |-> IF max_backoff_ms > 0 THEN max_backoff_ms ELSE 2000]

\* uplink::set_retry_policy
uplink_set_retry_policy(retries, base_backoff_ms, max_backoff_ms) ==
  [retry_count     |-> IF retries > 0 THEN retries ELSE 1,
   backoff_base_ms |-> IF base_backoff_ms > 0 THEN base_backoff_ms ELSE 1000,
   backoff_max_ms  |-> IF max_backoff_ms > 0 THEN max_backoff_ms ELSE 4000]

\* delay_ms = backoff_base_ms << attempt; if (delay_ms > max) delay_ms = max
\* (the shifted value stays below 2^32 for the policies and attempts drawn)
delay_ms(base, max, attempt) ==
  LET d == base * Pow2(attempt) IN IF d > max THEN max ELSE d

\* post_frame sleeps after every failed attempt
post_frame_sleeps(attempt, retry_count) == TRUE

\* the upload POST sleeps only if (attempt + 1 < upload_retry_count)
upload_sleeps(attempt, retry_count) == attempt + 1 < retry_count

\* the policy is set and a call starts: for (attempt = 0; attempt < retry_count; ...)
NetCall ==
  /\ net.pc = "idle"
  /\ \E fn \in {"post_frame", "upload"}, retries \in 0..MaxRetries,
        base \in BaseValues, max \in MaxValues :
       LET pol == IF fn = "post_frame" THEN transport_set_retry_policy(retries, base, max)
                  ELSE uplink_set_retry_policy(retries, base, max)
       IN net' = [NetIdle EXCEPT !.pc = "attempt", !.fn = fn,
                                 !.retry_count = pol.retry_count,
                                 !.backoff_base_ms = pol.backoff_base_ms,
                                 !.backoff_max_ms = pol.backoff_max_ms]
  /\ UNCHANGED <<ring, mtx, acq, up, g, nvs, S, flash, cloud, hist, cdc, sec, mbus>>

\* esp_http_client_perform and the test of its result: break on success,
\* otherwise the backoff decision
NetAttempt ==
  /\ net.pc = "attempt"
  /\ \E good \in BOOLEAN :
       net' = [net EXCEPT !.performed = net.performed + 1, !.ok = good,
                 !.pc = IF good THEN "done"
                        ELSE IF (IF net.fn = "post_frame"
                                 THEN post_frame_sleeps(net.attempt, net.retry_count)
                                 ELSE upload_sleeps(net.attempt, net.retry_count))
                             THEN "sleep" ELSE "next"]
  /\ UNCHANGED <<ring, mtx, acq, up, g, nvs, S, flash, cloud, hist, cdc, sec, mbus>>

\* vTaskDelay(pdMS_TO_TICKS(delay_ms))
NetSleep ==
  /\ net.pc = "sleep"
  /\ net' = [net EXCEPT !.pc = "next",
               !.sleeps = Append(net.sleeps,
                   delay_ms(net.backoff_base_ms, net.backoff_max_ms, net.attempt))]
  /\ UNCHANGED <<ring, mtx, acq, up, g, nvs, S, flash, cloud, hist, cdc, sec, mbus>>

\* ++attempt and the loop test
NetLoop ==
  /\ net.pc = "next"
  /\ net' = [net EXCEPT !.attempt = net.attempt + 1,
               !.pc = IF net.attempt + 1 < net.retry_count THEN "attempt" ELSE "done"]
  /\ UNCHANGED <<ring, mtx, acq, up, g, nvs, S, flash, cloud, hist, cdc, sec, mbus>>

\* the call returns (the reply, or the empty result when the last attempt failed)
NetReturn ==
  /\ net.pc = "done"
  /\ net' = NetIdle
  /\ UNCHANGED <<ring, mtx, acq, up, g, nvs, S, flash, cloud, hist, cdc, sec, mbus>>

NextRetry == NetCall \/ NetAttempt \/ NetSleep \/ NetLoop \/ NetReturn

SpecRetry == Init /\ [][NextRetry]_vars

SpecRetryFair == SpecRetry /\ WF_vars(NextRetry)

\* the delays slept so far are min(b * 2^k, M) for k = 0, 1, ...
BackoffSchedule ==
  \A k \in 1..Len(net.sleeps) :
     net.sleeps[k] = Min(net.backoff_base_ms * Pow2(k - 1), net.backoff_max_ms)

\* C28: a call makes at most N attempts and stops at the first successful
\* one; after failed attempt k it sleeps min(b * 2^k, M) and only when
\* another attempt follows, so a call that returns has slept once less
\* than it has attempted; it returns the empty result only after N failed
\* attempts.
C28_SleepOnlyBetweenAttempts ==
  /\ net.performed <= net.retry_count
  /\ BackoffSchedule
  /\ net.pc = "done" =>
       /\ Len(net.sleeps) = net.performed - 1
       /\ ~net.ok => net.performed = net.retry_count

\* C28, the part both calls keep: at most N attempts, none after a
\* success, the delays min(b * 2^k, M), the empty result only after N
\* failures; the upload POST sleeps only between attempts, post_frame
\* after every failed attempt, the last one included.
C28_AttemptsBounded ==
  /\ net.performed <= net.retry_count
  /\ net.pc # "idle" => net.retry_count >= 1
  /\ BackoffSchedule
  /\ net.pc = "done" =>
       /\ net.ok => Len(net.sleeps) = net.performed - 1
       /\ ~net.ok =>
            /\ net.performed = net.retry_count
            /\ net.fn = "upload" => Len(net.sleeps) = net.retry_count - 1
            /\ net.fn = "post_frame" => Len(net.sleeps) = net.retry_count

\* C28: every call returns
C28_Returns == (net.pc = "attempt") ~> (net.pc = "done")

\* post_frame with the policy of app_main (3, 200, 2000) has failed three
\* times and has slept three times
C28_PostFrameSleptAfterLast ==
  /\ net.fn = "post_frame" /\ net.pc = "done" /\ ~net.ok
  /\ net.retry_count = 3 /\ net.sleeps = <<200, 400, 800>>

(***************************************************************************)
(* Modbus read responses: a response frame for a read request is parsed,   *)
(* as sent and with one byte altered.                                      *)
(***************************************************************************)
MaxCount == 2
MbSlaves == {1, SLAVE}
MbAddrs  == {0, 8}
MbWords  == {4660, 65535}

\* the response [slave][0x03][byte_count][words, high byte first][CRC_lo][CRC_hi]
read_response(slave, words) ==
  with_crc(<<slave, 3, (2 * Len(words)) % 256>> \o
           [k \in 1..(2 * Len(words)) |->
              IF k % 2 = 1 THEN words[(k + 1) \div 2] \div 256 ELSE words[k \div 2] % 256])

\* the response to make_read_holding(s, a, c) is parsed as sent
MbParseEcho ==
  /\ mbus.op = "none"
  /\ \E s \in MbSlaves, a \in MbAddrs, c \in 0..MaxCount :
       \E words \in [1..c -> MbWords] :
          LET frame == read_response(s, words)
          IN mbus' = [op |-> "echo", slave |-> s, count |-> c, words |-> words,
                      req |-> make_read_holding(s, a, c), frame |-> frame, pos |-> 0,
                      out |-> parse_read_response(bytes_to_hex(frame))]
  /\ UNCHANGED <<ring, mtx, acq, up, g, nvs, S, flash, cloud, hist, cdc, sec, net>>

\* the same response with the byte at one position replaced by another value
MbParseAltered ==
  /\ mbus.op = "none"
  /\ \E s \in MbSlaves, c \in 0..MaxCount :
       \E words \in [1..c -> MbWords] :
          LET sent == read_response(s, words)
          IN \E pos \in 1..Len(sent), v \in 0..255 :
               /\ v # sent[pos]
               /\ LET frame == [sent EXCEPT ![pos] = v]
                  IN mbus' = [op |-> "altered", slave |-> s, count |-> c, words |-> words,
                              req |-> <<>>, frame |-> frame, pos |-> pos,
                              out |-> parse_read_response(bytes_to_hex(frame))]
  /\ UNCHANGED <<ring, mtx, acq, up, g, nvs, S, flash, cloud, hist, cdc, sec, net>>

\* the harness is ready for the next frame
MbNext ==
  /\ mbus.op # "none"
  /\ mbus' = MbIdle
  /\ UNCHANGED <<ring, mtx, acq, up, g, nvs, S, flash, cloud, hist, cdc, sec, net>>

NextModbus == MbParseEcho \/ MbParseAltered \/ MbNext

SpecModbus == Init /\ [][NextModbus]_vars

\* C29: the response to a read request, parsed as sent, gives (slave,
\* 0x03, regs) with as many registers as were asked for, equal to the
\* words sent; with any single byte altered it is rejected.
C29_ReadResponseRoundTrip ==
  /\ mbus.op = "echo" =>
       /\ mbus.out.ok
       /\ mbus.out.slave = mbus.slave
       /\ mbus.out.func = 3
       /\ Len(mbus.out.regs) = mbus.count
       /\ mbus.out.regs = mbus.words
  /\ mbus.op = "altered" => ~mbus.out.ok

\* a response carrying two registers has been parsed
C29_Witness ==
  /\ mbus.op = "echo" /\ mbus.count = 2 /\ mbus.out.ok
  /\ mbus.out.regs = <<4660, 65535>>
  /\ mbus.req = make_read_holding(SLAVE, 8, 2)

\* a response whose high CRC byte was altered has been refused
C29_WitnessAltered ==
  /\ mbus.op = "altered" /\ mbus.count = 2 /\ mbus.pos = Len(mbus.frame)
  /\ ~mbus.out.ok

\* a response with one altered data byte has been refused
C29_WitnessData ==
  /\ mbus.op = "altered" /\ mbus.count = 1 /\ mbus.pos = 4 /\ ~mbus.out.ok

\* C30: set_export_power reports success exactly when the bytes of the
\* simulator's reply frame are the bytes of the request frame
\* make_write_single(0x11, 8, value); every other reply is a failure.
C30_SuccessIffSameBytes ==
  hist.exec.has =>
    /\ hist.exec.req = make_write_single(SLAVE, 8, clamp_pct(hist.exec.percent))
    /\ hist.exec.ret <=> hex_to_bytes(hist.exec.resp) = hex_to_bytes(hist.exec.req)

\* C30, as the code has it: success exactly when the reply text is the
\* request text, character by character, in the upper-case hex that
\* bytes_to_hex writes; an empty reply, an exception frame, the echo of
\* another value and the same bytes written in lower case are failures.
C30_SuccessIffSameText ==
  hist.exec.has =>
    /\ hist.exec.req = make_write_single(SLAVE, 8, clamp_pct(hist.exec.percent))
    /\ hist.exec.ret <=> hist.exec.resp = hist.exec.req
    /\ hist.exec.ret => hex_to_bytes(hist.exec.resp) = hex_to_bytes(hist.exec.req)

\* the reply carried the bytes of the request in lower-case hex and the
\* write was reported as failed
C30_LowerCaseEchoFails ==
  /\ hist.exec.has /\ ~hist.exec.ret
  /\ hist.exec.resp # hist.exec.req
  /\ hex_to_bytes(hist.exec.resp) = hex_to_bytes(hist.exec.req)

(***************************************************************************)
(* Both tasks with an inverter that may fail any grouped read, and a cloud *)
(* that may change the field list (two fields that are not adjacent: two   *)
(* grouped reads per tick).                                                *)
(***************************************************************************)
NextDiag ==
  \/ AcqTick \/ AcqRead(TRUE) \/ AcqTake \/ AcqPush \/ AcqGive \/ AcqCount \/ AcqDelay \/ AcqPeriod
  \/ UpPromote \/ UpTake \/ UpCopy \/ UpClear \/ UpGive \/ UpBuild \/ UpDiag \/ UpInc(MaxNonce) \/ UpPersist
  \/ UpPost(RepliesTick) \/ UpUnwrap \/ UpConfig \/ UpCommand \/ UpManifest \/ UpChunk \/ UpFinalize \/ UpExec

SpecDiag == Init /\ [][NextDiag]_vars

\* C31: a tick in which at least one grouped read succeeded has pushed one
\* record; a tick in which none succeeded has pushed none; acq_read_fail
\* is logged in exactly the ticks that are the third, sixth, ... of a run
\* of consecutive failed ticks.
C31_RecordOnlyWhenSomeGroupRead ==
  hist.tick.done =>
    /\ hist.tick.good # {} => hist.tick.pushed
    /\ hist.tick.good = {} => ~hist.tick.pushed
    /\ hist.tick.logged <=> (hist.tick.streak > 0 /\ hist.tick.streak % 3 = 0)

\* C31, as the code has it: every tick pushes one record, whatever its
\* reads did; the failure counter counts the ticks since boot in which no
\* grouped read succeeded, and acq_read_fail is logged in a failed tick
\* that brings the counter to a multiple of three.
C31_EveryTickPushes ==
  hist.tick.done =>
    /\ hist.tick.pushed
    /\ hist.tick.logged <=> (hist.tick.good = {} /\ hist.tick.failures % 3 = 0)
    /\ hist.tick.good # {} => hist.tick.streak = 0

\* a tick with two grouped reads, one of which failed, has pushed its record
C31_PartialTickPushed ==
  /\ hist.tick.done /\ hist.tick.groups = 2 /\ Cardinality(hist.tick.good) = 1
  /\ hist.tick.pushed

\* a tick whose every read failed has pushed a record all the same
C31_FailedTickPushed ==
  /\ hist.tick.done /\ hist.tick.good = {} /\ hist.tick.pushed

\* a is the beginning of b
IsPrefix(a, b) == Len(a) <= Len(b) /\ SubSeq(b, 1, Len(a)) = a

\* C32: when the POST of a payload has failed, the events that were merged
\* into that payload are still at the head of the event log, so that the
\* next payload carries them again.
C32_EventsKeptUntilUploaded ==
  (up.pc = "unwrap" /\ ~up.ok) => IsPrefix(BodyEvents(up.body), g.events)

\* C32, as the code has it: the step that completes a payload merges the
\* whole event log into it and leaves the log empty, before the POST and
\* whatever its outcome; the POST itself does not touch the log.
C32_EventsClearedWhenMerged ==
  [][/\ (up.pc = "diag" /\ up'.pc = "inc") =>
          /\ BodyEvents(up'.body) = g.events
          /\ g'.events = <<>>
     /\ (up.pc = "post" /\ up'.pc = "unwrap") => g'.events = g.events]_vars

\* a payload that carried an event was not delivered and the log is empty
C32_EventsLost ==
  /\ up.pc = "unwrap" /\ ~up.ok
  /\ BodyEvents(up.body) # <<>> /\ g.events = <<>>

\* the overwrites of the ring so far, and the one task_acq has made but not
\* yet counted
Overwrites == Cardinality(hist.overwritten)
UncountedOverwrite == IF acq.pc \in {"give", "count"} /\ acq.overflow THEN 1 ELSE 0

\* C37: the overwrites reported in the diag members of the payloads built
\* so far (a payload counts from the reset that follows the write of its
\* diag member), plus the dropped counter, plus the overwrite task_acq is about to
\* count, are the overwrites of the ring: none is lost.
C37_NoOverwriteLost ==
  hist.reported + g.dropped_samples + UncountedOverwrite = Overwrites

\* C37, as the code has it: the diagnostics never report more overwrites
\* than happened, and they report all of them as long as task_acq does not
\* count one between the write of the diag member and the reset of the
\* counter.
C37_NeverOverReported ==
  /\ [](hist.reported + g.dropped_samples + UncountedOverwrite <= Overwrites)
  /\ [][(up.pc = "diag" /\ up'.pc = "inc") =>
          g.dropped_samples \in {up.body[Len(up.body)] - TokDiag0,
                                 up.body[Len(up.body)] - TokDiag0 + 1}]_vars

\* an overwrite was counted after the diag member was written and wiped
\* by the reset that follows it
C37_OverwriteLost ==
  /\ up.pc = "inc" /\ g.dropped_samples = 0 /\ hist.reported = 0
  /\ Overwrites = 1 /\ UncountedOverwrite = 0

\* the number of top-level fota keys of a payload body: one per FOTA
\* sideband the uplink task appended
FotaKeys(body) ==
  Cardinality({i \in 1..Len(body) :
                 body[i] \in {TokFotaProgress, TokFotaReport, TokFotaError, TokFotaBootOk}})

\* C36: every upload payload body has at most one top-level key named
\* fota, whatever FOTA sidebands are staged in the cycle.
C36_OneFotaKey ==
  FotaKeys(up.body) <= 1

\* C36, as the code has it: every staged sideband appends a fota key of its
\* own, each kind at most once per payload.
C36_OneKeyPerSideband ==
  \A t \in {TokFotaProgress, TokFotaReport, TokFotaError, TokFotaBootOk} :
    Cardinality({i \in 1..Len(up.body) : up.body[i] = t}) <= 1

\* a payload with both the progress sideband and the error sideband
C36_TwoFotaKeys ==
  /\ up.pc = "post"
  /\ \E i, j \in 1..Len(up.body) : up.body[i] = TokFotaProgress /\ up.body[j] = TokFotaError

\* the manifest step of the uplink task called fota::start and it failed
StartFailed ==
  /\ up.pc = "manifest" /\ up'.pc = "chunk"
  /\ ParseManifest(up.inner).has
  /\ ~hist'.fota.ret

\* C34: when fota::start fails no session is active afterwards:
\* get_next_chunk_for_cloud returns 0 and the same manifest is not a
\* duplicate of an active session.
C34_FailedStartNoSession ==
  [][StartFailed =>
       /\ ~S'.session_active
       /\ get_next_chunk_for_cloud(S') = 0
       /\ ~duplicate_manifest(S', ParseManifest(up.inner).mf)]_vars

\* C34, as the code has it: fota::start sets session_active before the
\* steps that can fail and no failure path clears it, so the failed
\* manifest is the manifest of an active session and its retransmission
\* is a duplicate.
C34_FailedStartKeepsSession ==
  [][StartFailed =>
       /\ S'.session_active
       /\ S'.last_error \in {"no-update-partition", "ota-begin", "ota-begin-resume", "resume-read"}
       /\ get_next_chunk_for_cloud(S') = S'.next_chunk
       /\ duplicate_manifest(S', ParseManifest(up.inner).mf)]_vars

\* fota::start failed and left the session active
C34_FailedStartActive ==
  /\ up.pc = "chunk" /\ hist.fota.op = "start" /\ ~hist.fota.ret
  /\ S.session_active

\* the retransmitted manifest was ignored as a duplicate of a session
\* that has no update partition
C34_RetransmissionIgnored ==
  /\ up.pc = "chunk" /\ hist.fota.op = "start" /\ hist.fota.match /\ hist.fota.ret
  /\ S.session_active /\ ~S.part

NextTorn ==
  \/ NextFota
  \/ UpChunkTorn

SpecTorn == Init /\ [][NextTorn]_vars

RECURSIVE SumTo(_, _)
\* the total decoded length of chunks 0 .. k-1
SumTo(lens, k) == IF k = 0 THEN 0 ELSE lens[k] + SumTo(lens, k - 1)

\* the persisted pair (fota/bytes_written, fota/next_chunk) counts exactly
\* the chunks below next_chunk
PairConsistent ==
  /\ nvs.fota.next_chunk <= Len(hist.lens)
  /\ nvs.fota.bytes_written = SumTo(hist.lens, nvs.fota.next_chunk)

\* C35: at every point at which a reset can occur the persisted pair is
\* consistent: bytes_written is the total decoded length of chunks
\* 0 .. next_chunk-1.
C35_PersistedPairConsistent ==
  PairConsistent

\* C35, as the code has it: the pair is consistent as long as the device
\* has not reset, and bytes_written never exceeds the persisted size.
C35_ConsistentUntilReset ==
  /\ hist.resets = 0 => PairConsistent
  /\ nvs.fota.bytes_written <= nvs.fota.size

\* the reset fell between the two writes of ingest_chunk: bytes_written
\* counts chunk 0, next_chunk does not
C35_TornPair ==
  /\ up.pc = "promote" /\ hist.resets = 1 /\ hist.fota.op = "none"
  /\ nvs.fota.bytes_written > 0 /\ nvs.fota.next_chunk = 0

\* after the reset between the two writes the same manifest was resumed
\* and chunk 0, whose byte bytes_written already counted, was accepted
\* again
C35_ChunkCountedTwice ==
  /\ hist.fota.op = "chunk" /\ hist.fota.ret /\ hist.resets = 1
  /\ nvs.fota.next_chunk = 1 /\ hist.lens = <<1>>
  /\ nvs.fota.bytes_written = 2

\* a payload that is not Base64 (one character)
NotBase64 == <<65>>

\* a 2xx reply of the cloud whose payload is not Base64, MACed with the
\* right key over a fresh nonce
UpPostRaw ==
  /\ up.pc = "post"
  /\ up' = [up EXCEPT !.pc = "unwrap", !.ok = TRUE,
                      !.reply = [nonce |-> fmt_u64(cloud.nonce + 1), payload |-> NotBase64,
                                 mac |-> hmac_sha256(PSK, <<fmt_u64(cloud.nonce + 1), NotBase64>>)]]
  /\ cloud' = [cloud EXCEPT !.nonce = cloud.nonce + 1]
  /\ hist' = [hist EXCEPT !.sent = Append(hist.sent, strtoull(up.to_send.nonce))]
  /\ UNCHANGED <<ring, mtx, acq, g, nvs, S, flash, cdc, sec, net, mbus>>

NextRaw ==
  \/ NextAdv
  \/ UpPostRaw

SpecRaw == Init /\ [][NextRaw]_vars

\* the unwrap step of the uplink task called unwrap_and_verify_envelope and
\* it returned no body
UnwrapNone ==
  /\ up.pc = "unwrap" /\ up'.pc = "config"
  /\ up.ok /\ up.reply # NoEnv
  /\ ~unwrap_and_verify_envelope(up.reply, PSK, g.last_cloud_nonce, TRUE).ok

\* the reply being unwrapped has the right MAC and a fresh nonce
MacedAndFresh ==
  /\ Len(up.reply.payload) > 0
  /\ ~BadMac /\ ~StaleNonce

\* C33: unwrap_and_verify_envelope leaves last_seen_nonce unchanged
\* whenever it returns no body, a payload that is not Base64 included, so
\* the cloud nonce in memory is never ahead of the persisted one.
C33_NoneLeavesNonce ==
  [][UnwrapNone => (g'.last_cloud_nonce = g.last_cloud_nonce
                      /\ g'.last_cloud_nonce <= nvs'.nonce_cloud)]_vars

\* C33, as the code has it: last_seen_nonce is assigned after the MAC and
\* the anti-replay test and before the Base64 decoding, so a refusal
\* leaves it unchanged unless the envelope had the right MAC and a fresh
\* nonce, and then it is the envelope's nonce; the persisted nonce is never
\* ahead of the one in memory.
C33_NonceSetBeforeDecode ==
  /\ [][UnwrapNone =>
          g'.last_cloud_nonce = IF MacedAndFresh THEN strtoull(up.reply.nonce)
                                ELSE g.last_cloud_nonce]_vars
  /\ [](nvs.nonce_cloud <= g.last_cloud_nonce)

\* a reply with the right MAC and a payload that is not Base64 was
\* refused, and the nonce in memory is ahead of the persisted one
C33_NonceAhead ==
  /\ up.pc = "config" /\ up.inner = <<>> /\ up.reply.payload = NotBase64
  /\ g.last_cloud_nonce = nvs.nonce_cloud + 1

\* ms (a uint32_t in halves) is 1000 * si in plain arithmetic; both sides
\* are compared divided by 8
ExactMs(si, ms) ==
  /\ si <= MaxSiSec
  /\ ms.lo % 8 = 0
  /\ ms.hi * 8192 + ms.lo \div 8 = 125 * si

ZeroMs == Word(0, 0)

\* C38: an accepted sampling_interval of s seconds yields
\* next.sampling_interval_ms = 1000 * s exactly, with no 32-bit
\* wraparound, and the sampling interval in current is never 0.
C38_AcceptedIntervalExact ==
  /\ (Dispatched /\ ClassOf("sampling_interval") = "accepted") =>
       ExactMs(hist.cfg.si_sec, g.cfg_next.sampling_interval_ms)
  /\ g.cfg_cur.sampling_interval_ms # ZeroMs

\* C38, as the code has it: the product is reduced modulo 2^32; it is
\* exact for intervals of at most MaxSiSec seconds, and the next and the
\* current interval are 0 only after a longer one was accepted.
C38_AcceptedIntervalModulo ==
  /\ (Dispatched /\ ClassOf("sampling_interval") = "accepted") =>
       /\ g.cfg_next.sampling_interval_ms = mul1000_u32(hist.cfg.si_sec)
       /\ hist.cfg.si_sec <= MaxSiSec =>
            ExactMs(hist.cfg.si_sec, g.cfg_next.sampling_interval_ms)
       /\ g.cfg_next.sampling_interval_ms = ZeroMs => hist.cfg.si_sec = SiZero
  /\ g.cfg_cur.sampling_interval_ms = ZeroMs =>
       g.cfg_next.sampling_interval_ms = ZeroMs \/ hist.cfg.has

\* the interval SiZero was accepted and promoted: the current sampling
\* interval is 0 ms
C38_ZeroInterval ==
  /\ up.pc = "take"
  /\ g.cfg_cur.sampling_interval_ms = ZeroMs

\* an interval within range was accepted with its exact product
C38_ExactAccepted ==
  /\ Dispatched /\ ClassOf("sampling_interval") = "accepted"
  /\ hist.cfg.si_sec = 10
  /\ g.cfg_next.sampling_interval_ms = Word(0, 10000)

\* the offset of the first opcode of a blob with NFields fields
FirstOp == 8 + 2 * NFields

\* the blob with the byte at the 0-based offset off replaced and the CRC
\* trailer made anew
with_byte(blob, off, b) ==
  LET body == [i \in 1..(Len(blob) - 4) |-> IF i = off + 1 THEN b ELSE blob[i]]
  IN body \o put_u32(crc32_ieee(body))

\* a blob that did not come from the encoder: the encoding of a batch whose
\* first opcode is a zero run, with another run length and a valid CRC
CodecForge ==
  /\ cdc.pc = "idle"
  /\ \E B \in Batches :
       LET blob == encode_delta_rle_v1(B)
       IN /\ Len(B) >= 2 /\ At(blob, FirstOp) = 0
          /\ \E len \in {0, At(blob, FirstOp + 1) + 1, 255} :
               cdc' = [cdc EXCEPT !.pc = "encoded", !.batch = B,
                                  !.blob = with_byte(blob, FirstOp + 1, len)]
  /\ UNCHANGED <<ring, mtx, acq, up, g, nvs, S, flash, cloud, hist, sec, net, mbus>>

NextDec == CodecEncode \/ CodecForge \/ CodecDecode

SpecDec == Init /\ [][NextDec]_vars

\* the decoding of the opcodes of a blob with samples
OpsOf(blob) == dec_fields(blob, At(blob, 1), get_u16(blob, 2), 1, 8 + 2 * At(blob, 1), <<>>)

\* a zero run of the blob is longer than the values its field still misses
OverlongRun(blob) ==
  /\ Len(blob) >= 8 + 2 * NFields + 4 /\ At(blob, 1) = NFields /\ get_u16(blob, 2) > 0
  /\ OpsOf(blob).ub

\* C39: a zero run longer than the values still missing for its field is
\* rejected: the decoder returns false, and writes no value beyond the
\* field's n_samples entries.
C39_OverlongRunRejected ==
  (cdc.pc = "decoded" /\ OverlongRun(cdc.blob)) =>
    (cdc.out = [ok |-> FALSE, samples |-> <<>>, fault |-> "none"]
       /\ ~decode_delta_rle_v1(cdc.blob).ub)

\* C39, as the code has it: when no run is overlong the decoder returns
\* true only with exactly n_samples values for every field, and a blob
\* whose runs fall short of n_samples - 1 values is refused.
C39_ExactUnlessOverlong ==
  (cdc.pc = "decoded" /\ cdc.batch # <<>> /\ ~OverlongRun(cdc.blob)) =>
    /\ cdc.out.fault = "none"
    /\ cdc.out.ok =>
         /\ OpsOf(cdc.blob).ok
         /\ \A f \in 1..NFields : Len(OpsOf(cdc.blob).cols[f]) = get_u16(cdc.blob, 2)
         /\ Len(cdc.out.samples) = get_u16(cdc.blob, 2)
    /\ At(cdc.blob, FirstOp + 1) = 0 /\ At(cdc.blob, FirstOp) = 0 => ~cdc.out.ok

\* a blob with an overlong zero run was decoded and the decoder went on
\* past the field's vector
C39_OverlongRunWritten ==
  /\ cdc.pc = "decoded" /\ OverlongRun(cdc.blob)
  /\ Len(cdc.batch) = 2 /\ At(cdc.blob, FirstOp + 1) = 2
  /\ cdc.out.fault = "crash"

\* a blob whose first run was cut to length 0 was refused
C39_ShortRunRefused ==
  /\ cdc.pc = "decoded" /\ ~OverlongRun(cdc.blob)
  /\ Len(cdc.batch) = 2 /\ At(cdc.blob, FirstOp) = 0 /\ At(cdc.blob, FirstOp + 1) = 0
  /\ ~cdc.out.ok

(***************************************************************************)
(* Acquisition::read_all and read_selected against an inverter that        *)
(* answers each grouped read in full, with one register fewer than asked,  *)
(* from another slave, or not at all.                                      *)
(***************************************************************************)
\* the content of the holding register at addr
RegVal(addr) == 1000 + addr

\* the hex text the inverter answers a read of cnt registers at a0 with
Response(a0, cnt, kind) ==
  CASE kind = "full"  -> bytes_to_hex(read_response(SLAVE, [k \in 1..cnt |-> RegVal(a0 + k - 1)]))
    [] kind = "short" -> bytes_to_hex(read_response(SLAVE, [k \in 1..(cnt - 1) |-> RegVal(a0 + k - 1)]))
    [] kind = "other" -> bytes_to_hex(read_response(1, [k \in 1..cnt |-> RegVal(a0 + k - 1)]))
    [] kind = "blank" -> <<>>

\* Acquisition::read_group, given the response to its request: the flag
\* and out_regs
read_group(addr, count, resp) ==
  LET p == parse_read_response(resp)
  IN IF Len(resp) = 0 THEN [ok |-> FALSE, regs |-> <<>>]
     ELSE IF ~p.ok THEN [ok |-> FALSE, regs |-> <<>>]
     ELSE IF p.slave # SLAVE \/ p.func # 3 THEN [ok |-> FALSE, regs |-> p.regs]
     ELSE [ok |-> TRUE, regs |-> p.regs]

\* regs.size() == cnt
size_is(regs, cnt) == Len(regs) = cnt

\* out.<field a0 + k> = regs[k] for k < cnt; an index beyond the list reads
\* whatever is there (junk)
copy_regs(out, a0, cnt, regs, junk) ==
  [f \in 0..(NFields - 1) |->
     IF f >= a0 /\ f < a0 + cnt
     THEN IF f - a0 + 1 <= Len(regs) THEN regs[f - a0 + 1] ELSE junk
     ELSE out[f]]

\* Sample s{}
SampleZero == [f \in 0..(NFields - 1) |-> 0]

\* the six smaller reads of read_all
AllGroups ==
  <<[a0 |-> 0, cnt |-> 2], [a0 |-> 2, cnt |-> 1], [a0 |-> 3, cnt |-> 2],
    [a0 |-> 5, cnt |-> 3], [a0 |-> 8, cnt |-> 1], [a0 |-> 9, cnt |-> 1]>>

Kinds == {"full", "short", "blank", "other"}
FidLists == {<<0, 1>>, <<0, 1, 9>>, <<3, 4, 5, 8>>, <<2>>}

RECURSIVE RunLen(_, _)
RunLen(fids, i) ==
  IF i < Len(fids) /\ fids[i + 1] = fids[i] + 1 THEN 1 + RunLen(fids, i + 1) ELSE 1

\* the groups read_selected forms: runs of consecutive field ids
RECURSIVE GroupsOf(_, _)
GroupsOf(fids, i) ==
  IF i > Len(fids) THEN <<>>
  ELSE <<[a0 |-> fids[i], cnt |-> RunLen(fids, i)]>> \o GroupsOf(fids, i + RunLen(fids, i))

\* every group the calls of the model read
GroupSet ==
  {[a0 |-> 0, cnt |-> NFields]} \cup Range(AllGroups)
    \cup UNION {Range(GroupsOf(fids, 1)) : fids \in FidLists}

\* read_group of each group against each answer
GroupRead ==
  [gr \in GroupSet, kind \in Kinds |->
     read_group(gr.a0, gr.cnt, Response(gr.a0, gr.cnt, kind))]

\* the grouped reads of a loop of read_all / read_selected from group i on;
\* checked says whether the copy is guarded by the size test
RECURSIVE read_loop(_, _, _, _, _, _)
read_loop(st, grps, kinds, i, checked, junk) ==
  IF i > Len(grps) THEN st
  ELSE LET gr == grps[i]
           r  == GroupRead[gr, kinds[i]]
           go == r.ok /\ (~checked \/ size_is(r.regs, gr.cnt))
       IN read_loop(IF go
                    THEN [ok |-> TRUE,
                          out |-> copy_regs(st.out, gr.a0, gr.cnt, r.regs, junk),
                          oob |-> st.oob \/ Len(r.regs) < gr.cnt]
                    ELSE st,
                    grps, kinds, i + 1, checked, junk)

\* Acquisition::read_all; kinds[1] answers the read of ten registers,
\* kinds[2..7] the six smaller ones
read_all(kinds, junk) ==
  LET first == read_loop([ok |-> FALSE, out |-> SampleZero, oob |-> FALSE],
                         <<[a0 |-> 0, cnt |-> NFields]>>, kinds, 1, TRUE, junk)
  IN IF first.ok THEN first
     ELSE read_loop(first, AllGroups, SubSeq(kinds, 2, Len(kinds)), 1, FALSE, junk)

\* Acquisition::read_selected
read_selected(fids, kinds, junk) ==
  IF Len(fids) = 0 THEN [ok |-> FALSE, out |-> SampleZero, oob |-> FALSE]
  ELSE read_loop([ok |-> FALSE, out |-> SampleZero, oob |-> FALSE],
                 GroupsOf(fids, 1), kinds, 1, TRUE, junk)

Junk == {0, 65535}

\* one call of read_all; a read beyond the list of registers gives junk or
\* ends the task
RdAll ==
  /\ mbus.op = "none"
  /\ \E k1 \in Kinds, ks \in [1..Len(AllGroups) -> {"full", "short", "blank"}], junk \in Junk :
       LET r == read_all(<<k1>> \o ks, junk)
       IN \E crash \in (IF r.oob THEN BOOLEAN ELSE {FALSE}) :
            mbus' = [op |-> "read_all", fids |-> <<>>, kinds |-> <<k1>> \o ks,
                     grps |-> <<[a0 |-> 0, cnt |-> NFields]>> \o AllGroups,
                     out |-> [ok |-> r.ok, sample |-> r.out, oob |-> r.oob, crash |-> crash]]
  /\ UNCHANGED <<ring, mtx, acq, up, g, nvs, S, flash, cloud, hist, cdc, sec, net>>

\* one call of read_selected
RdSelected ==
  /\ mbus.op = "none"
  /\ \E fids \in FidLists :
       \E ks \in [1..Len(GroupsOf(fids, 1)) -> Kinds], junk \in Junk :
         LET r == read_selected(fids, ks, junk)
         IN \E crash \in (IF r.oob THEN BOOLEAN ELSE {FALSE}) :
              mbus' = [op |-> "read_selected", fids |-> fids, kinds |-> ks,
                       grps |-> GroupsOf(fids, 1),
                       out |-> [ok |-> r.ok, sample |-> r.out, oob |-> r.oob, crash |-> crash]]
  /\ UNCHANGED <<ring, mtx, acq, up, g, nvs, S, flash, cloud, hist, cdc, sec, net>>

NextRead == RdAll \/ RdSelected \/ MbNext

SpecRead == Init /\ [][NextRead]_vars

Reading == mbus.op \in {"read_all", "read_selected"}

\* the groups of the call whose read was issued
Issued ==
  IF mbus.op = "read_all" /\ mbus.kinds[1] = "full" THEN {1}
  ELSE 1..Len(mbus.grps)

\* C40: no register index beyond the returned list is read, and a group
\* whose well-formed response carries fewer registers than requested
\* fails: none of its fields is copied.
C40_ShortGroupFails ==
  Reading =>
    /\ ~mbus.out.oob
    /\ \A i \in Issued :
         mbus.kinds[i] = "short" =>
           \A f \in mbus.grps[i].a0 .. (mbus.grps[i].a0 + mbus.grps[i].cnt - 1) :
             (mbus.op = "read_all" /\ i = 1) \/ mbus.out.sample[f] = 0

\* C40, as the code has it: read_selected and the read of ten registers
\* of read_all test regs.size(); the six smaller reads of read_all do not,
\* and read beyond the list exactly when one of them is answered short.
C40_OnlyFallbackUnchecked ==
  Reading =>
    /\ mbus.op = "read_selected" => ~mbus.out.oob
    /\ (mbus.op = "read_all" /\ mbus.kinds[1] = "full") =>
         (~mbus.out.oob /\ mbus.out.ok
            /\ mbus.out.sample = [f \in 0..(NFields - 1) |-> RegVal(f)])
    /\ mbus.out.oob <=>
         (mbus.op = "read_all" /\ mbus.kinds[1] # "full"
            /\ \E i \in 2..Len(mbus.kinds) : mbus.kinds[i] = "short")
    /\ \A i \in Issued :
         mbus.kinds[i] = "full" =>
           \A f \in mbus.grps[i].a0 .. (mbus.grps[i].a0 + mbus.grps[i].cnt - 1) :
             mbus.out.sample[f] = RegVal(f)

\* read_all fell back to the smaller reads, the read of (0, 2) was
\* answered with one register, and regs[1] was read beyond the list
C40_ReadBeyondList ==
  /\ mbus.op = "read_all" /\ mbus.kinds[1] = "blank" /\ mbus.kinds[2] = "short"
  /\ mbus.out.oob /\ mbus.out.ok
  /\ mbus.out.sample[0] = RegVal(0) /\ mbus.out.sample[1] = 65535

\* read_selected refused a group answered with one register fewer
C40_SelectedShortRefused ==
  /\ mbus.op = "read_selected" /\ mbus.fids = <<0, 1, 9>>
  /\ mbus.kinds = <<"short", "full">>
  /\ mbus.out.ok /\ ~mbus.out.oob
  /\ mbus.out.sample[0] = 0 /\ mbus.out.sample[1] = 0 /\ mbus.out.sample[9] = RegVal(9)

====
